---- MODULE Spec2Model ----
(***************************************************************************)
(* Subscription broadcast engine of hlnode-websocket: the subscription     *)
(* registry (internal/subscription/manager.go), the connection hub         *)
(* (broadcaster), the per-connection request handlers                      *)
(* (internal/handlers/websocket.go) and the broadcast fan-out.             *)
(*                                                                         *)
(* Strings that the code lowercases (addresses, topics) are sequences of   *)
(* one-character strings, so that strings.ToLower is computed character    *)
(* by character.  JSON raw messages are tagged records.                    *)
(***************************************************************************)
EXTENDS Integers, Sequences, FiniteSets, Bags, TLC

(***************************************************************************)
(* Bounds of the model.                                                    *)
(***************************************************************************)
\* number of subscription ids that generateSubscriptionID can hand out
MaxSubs == 2
\* capacity of a client's outbound queue (make(chan []byte, 512)), scaled;
\* at least 2, so that a queue can hold messages in an order
SendCap == 2
\* handleMessage goroutines in flight at the same time
MaxInflight == 1
\* connections accepted in a run that starts with no connection
MaxSessions == 1
\* topic positions of a log and of a filter given to the matcher
MaxTopics == 2
\* blocks the upstream node produces in a run
MaxBlocks == 2
\* upstream calls that fail in a run
MaxErrors == 1

Clients == {"c1", "c2"}
SubIds == 1..MaxSubs
Pollers == {"blocks", "sync"}

ClientName(i) == IF i = 1 THEN "c1" ELSE "c2"

\* the connections accepted in a run that starts with no connection
Sessions == {ClientName(i) : i \in 1..MaxSessions} \cap Clients

(***************************************************************************)
(* Strings and strings.ToLower.                                            *)
(***************************************************************************)
LowerChar(ch) ==
  CASE ch = "A" -> "a"
    [] ch = "B" -> "b"
    [] OTHER -> ch

ToLower(s) == [i \in DOMAIN s |-> LowerChar(s[i])]

normalizeAddress(addr) == ToLower(addr)

normalizeTopic(topic) == ToLower(topic)

(***************************************************************************)
(* JSON raw messages.  t is the kind of JSON value, v its content: a       *)
(* string for "str", a sequence of JSON values for "arr", a record of the  *)
(* fields address/topics for "obj" (a field that is not sent is JAbsent).  *)
(* JAbsent is also the nil RawMessage.                                     *)
(***************************************************************************)
JAbsent == [t |-> "absent", v |-> <<>>]
JNull == [t |-> "null", v |-> <<>>]
JNum == [t |-> "num", v |-> <<>>]
JStr(s) == [t |-> "str", v |-> s]
JArr(seq) == [t |-> "arr", v |-> seq]
JObj(address, topics) == [t |-> "obj", v |-> <<address, topics>>]

\* json.Unmarshal(raw, &string) succeeds: a JSON string, or null (which
\* leaves the Go string at its zero value "")
IsStringJSON(raw) == raw.t \in {"str", "null"}

StringOf(raw) == IF raw.t = "str" THEN raw.v ELSE <<>>

\* json.Unmarshal(raw, &[]string) succeeds
IsStringArrayJSON(raw) ==
  \/ raw.t = "null"
  \/ /\ raw.t = "arr"
     /\ \A i \in DOMAIN raw.v : IsStringJSON(raw.v[i])

StringArrayOf(raw) ==
  IF raw.t = "arr" THEN [i \in DOMAIN raw.v |-> StringOf(raw.v[i])] ELSE <<>>

(***************************************************************************)
(* LogFilter: Address is a sequence of strings, Topics a sequence of       *)
(* sequences of strings.  A nil slice and an empty slice are both <<>>:    *)
(* the code only ever takes len() of them.                                 *)
(***************************************************************************)
ZeroFilter == [Address |-> <<>>, Topics |-> <<>>]

ParseAddress(raw) ==
  IF raw.t = "absent" THEN <<>>
  ELSE IF IsStringJSON(raw) THEN <<normalizeAddress(StringOf(raw))>>
  ELSE IF IsStringArrayJSON(raw)
    THEN [i \in DOMAIN StringArrayOf(raw) |-> normalizeAddress(StringArrayOf(raw)[i])]
  ELSE <<>>

ParseTopic(raw) ==
  IF raw.t \in {"absent", "null"} THEN <<>>
  ELSE IF IsStringJSON(raw) THEN <<normalizeTopic(StringOf(raw))>>
  ELSE IF IsStringArrayJSON(raw)
    THEN [j \in DOMAIN StringArrayOf(raw) |-> normalizeTopic(StringArrayOf(raw)[j])]
  ELSE <<>>

\* json.Unmarshal(data, &logFilterRaw) fails: data is not an object (null is
\* accepted and sets nothing), or its topics field is not an array
RawFilterError(data) ==
  \/ data.t \notin {"obj", "null"}
  \/ /\ data.t = "obj"
     /\ data.v[2].t \notin {"absent", "null", "arr"}

\* LogFilter.UnmarshalJSON applied to a zero LogFilter; the error is dropped
\* by the caller, which keeps whatever the filter holds
UnmarshalJSON(data) ==
  IF RawFilterError(data) \/ data.t = "null" THEN ZeroFilter
  ELSE [Address |-> ParseAddress(data.v[1]),
        Topics |-> IF data.v[2].t = "arr"
                     THEN [i \in DOMAIN data.v[2].v |-> ParseTopic(data.v[2].v[i])]
                     ELSE <<>>]

(***************************************************************************)
(* rpc.Log, reduced to the fields the matcher reads.                       *)
(***************************************************************************)
NilFilter == [Address |-> <<>>, Topics |-> <<>>, isNil |-> TRUE]

IsNilFilter(filter) == "isNil" \in DOMAIN filter

\* the address compared as the log carries it
AddressFound_CaseSensitive(logEntry, filter) ==
  \E i \in DOMAIN filter.Address : logEntry.Address = filter.Address[i]

AddressFound(logEntry, filter) ==
  \E i \in DOMAIN filter.Address : ToLower(logEntry.Address) = filter.Address[i]

TopicFound(logEntry, filter, i) ==
  \E j \in DOMAIN filter.Topics[i] :
    ToLower(logEntry.Topics[i]) = filter.Topics[i][j]

\* MatchesLogFilter refusing a nil filter
MatchesLogFilter_NilRejects(logEntry, filter) ==
  IF IsNilFilter(filter) THEN FALSE
  ELSE IF Len(filter.Address) > 0 /\ ~AddressFound(logEntry, filter) THEN FALSE
  ELSE \A i \in DOMAIN filter.Topics :
         \/ Len(filter.Topics[i]) = 0
         \/ /\ i <= Len(logEntry.Topics)
            /\ TopicFound(logEntry, filter, i)

MatchesLogFilter(logEntry, filter) ==
  IF IsNilFilter(filter) THEN TRUE
  ELSE IF Len(filter.Address) > 0 /\ ~AddressFound(logEntry, filter) THEN FALSE
  ELSE \A i \in DOMAIN filter.Topics :
         \/ Len(filter.Topics[i]) = 0
         \/ /\ i <= Len(logEntry.Topics)
            /\ TopicFound(logEntry, filter, i)


(***************************************************************************)
(* Inputs of the system specification.                                     *)
(***************************************************************************)
\* subscription type strings a client sends in eth_subscribe
SubTypeStrings == {"newHeads", "logs", "syncing", "gasPrice"}

\* second eth_subscribe parameter sent with "logs"
ParamInputs ==
  { JAbsent,
    JObj(JStr(<<"A">>), JAbsent),
    JObj(JStr(<<"b">>), JAbsent) }

Headers == {"0x999"}

Logs ==
  { [Address |-> <<"a">>, Topics |-> <<>>],
    [Address |-> <<"c">>, Topics |-> <<>>] }

SyncStatuses ==
  { [Syncing |-> TRUE, CurrentBlock |-> ""],
    [Syncing |-> FALSE, CurrentBlock |-> "0x999"] }

\* what each poller goroutine broadcasts: <<subscription type, payload>>
BroadcastInputs(p) ==
  IF p = "sync"
    THEN {<<"syncing", [t |-> "sync", v |-> st]>> : st \in SyncStatuses}
    ELSE {<<"newHeads", [t |-> "header", v |-> h]>> : h \in Headers}
         \cup {<<"logs", [t |-> "log", v |-> l]>> : l \in Logs}
         \cup {<<"gasPrice", [t |-> "gasPrice", v |-> "0x1"]>>,
               <<"blockReceipts", [t |-> "receipts", v |-> "0x999"]>>}

\* An inbound message, as far as handleMessage and the handlers read it:
\*   envelope  "ok" (a JSON object with jsonrpc "2.0"), "unparsable" (not
\*             JSON, and not starting with '['), "version" (jsonrpc is not
\*             "2.0"), "batch" (a JSON array of requests), "badbatch" (the
\*             first byte is '[' and the rest is not a JSON array)
\*   method    the method field ("" is an empty or missing method)
\*   args      "ok", "none" (params is no array, or an empty one),
\*             "mistyped" (params[0] is not a string)
\*   typ       params[0] of eth_subscribe
\*   params    params[1] of eth_subscribe
\*   sub       params[0] of eth_unsubscribe
Request(method, typ, params, sub) ==
  [envelope |-> "ok", method |-> method, args |-> "ok", typ |-> typ,
   params |-> params, sub |-> sub]

Requests ==
  {Request("eth_subscribe", ty, JAbsent, 0) : ty \in SubTypeStrings}
  \cup {Request("eth_subscribe", "logs", pa, 0) : pa \in ParamInputs}
  \cup {Request("eth_unsubscribe", "", JAbsent, s) : s \in SubIds}

\* type strings sent in the request validation runs
RpcTypeStrings ==
  {"newHeads", "logs", "gasPrice", "blockReceipts", "syncing",
   "newPendingTransactions", "bogus"}

\* well-formed and malformed messages of the request validation runs
RpcRequests ==
  {Request("eth_subscribe", ty, JAbsent, 0) : ty \in RpcTypeStrings}
  \cup {Request("eth_unsubscribe", "", JAbsent, 1),
        Request("eth_blockNumber", "", JAbsent, 0),
        Request("", "", JAbsent, 0),
        [Request("", "", JAbsent, 0) EXCEPT !.envelope = "unparsable"],
        [Request("", "", JAbsent, 0) EXCEPT !.envelope = "batch"],
        [Request("", "", JAbsent, 0) EXCEPT !.envelope = "badbatch"],
        [Request("eth_subscribe", "newHeads", JAbsent, 0)
           EXCEPT !.envelope = "version"],
        [Request("eth_subscribe", "", JAbsent, 0) EXCEPT !.args = "none"],
        [Request("eth_subscribe", "", JAbsent, 0) EXCEPT !.args = "mistyped"],
        [Request("eth_unsubscribe", "", JAbsent, 0) EXCEPT !.args = "none"]}

(***************************************************************************)
(* State.                                                                  *)
(***************************************************************************)
VARIABLES
  subscriptions,  \* Manager.subscriptions: id -> Subscription
  clientSubs,     \* Manager.clientSubs: client id -> sequence of ids
  owner,          \* every id generateSubscriptionID has returned -> its client
  unsubscribed,   \* ids for which Unsubscribe has returned true
  clients,        \* Broadcaster.clients (the keys)
  register,       \* Broadcaster.register channel
  unregister,     \* Broadcaster.unregister channel
  send,           \* Client.send channel contents, per client
  sendClosed,     \* close(client.send) has run, per client
  conn,           \* ServeHTTP of the session: "idle", "open", "gone"
  handlers,       \* in-flight handleMessage goroutines (a bag)
  poller,         \* the broadcasting goroutines
  panicked,       \* the process has crashed (send on a closed channel)
  last,           \* the last call made on the registry and what it returned
  upstream,       \* the node: its latest block number and its gas price
  lastBlockNum,   \* pollBlocks: lastBlockNum (0 is "")
  lastGasPrice,   \* pollBlocks: lastGasPrice (0 is "")
  blocksTick,     \* pollBlocks: where the current tick is and what it fetched
  syncTick,       \* pollSyncing: the upstream queries of the last tick, the
                  \* ticker's channel and the check in progress
  UpstreamErrorsTotal,  \* metrics.UpstreamErrorsTotal
  pollLog,        \* what the pollers have broadcast and failed to fetch so far
  locking         \* per goroutine: the call it is in and its place in it

vars == <<subscriptions, clientSubs, owner, unsubscribed, clients,
          register, unregister, send, sendClosed, conn, handlers, poller,
          panicked, last, upstream, lastBlockNum, lastGasPrice, blocksTick,
          syncTick, UpstreamErrorsTotal, pollLog, locking>>

pollVars == <<upstream, lastBlockNum, lastGasPrice, blocksTick, syncTick,
              UpstreamErrorsTotal, pollLog>>

\* a tick of pollBlocks: pc is where it stands, blockNum the number it
\* fetched, logs the fetched logs still to broadcast, call the broadcast its
\* latest step made (<<>> when it made none)
\* pollSyncing waiting for its ticker: no tick is pending in ticker.C, no
\* check is in flight
NoCheck ==
  [queries |-> 0, pc |-> "wait", pending |-> 0, inflight |-> 0, elapsed |-> 0]

NoTick == [pc |-> "wait", blockNum |-> 0, logs |-> <<>>, call |-> <<>>]

\* the pollers have not run yet
InitPoll ==
  /\ upstream = [blockNumber |-> 0, gasPrice |-> 1]
  /\ lastBlockNum = 0
  /\ lastGasPrice = 0
  /\ blocksTick = NoTick
  /\ syncTick = NoCheck
  /\ UpstreamErrorsTotal = 0
  /\ pollLog = [head |-> 0, gas |-> 0, receipts |-> {}, owed |-> {},
                failures |-> 0, outstanding |-> {}]

\* a goroutine outside every call that takes a lock
NoLocking == [op |-> "", at |-> 0, waiting |-> FALSE]

LockThreads == {"run", "blocks", "sync", "handler", "status"}

InitLock == locking = [t \in LockThreads |-> NoLocking]

registryVars == <<subscriptions, clientSubs, owner, unsubscribed>>
hubVars == <<clients, register, unregister, sendClosed>>

NoSub == [ID |-> 0, Type |-> "", Params |-> JAbsent, ClientID |-> ""]

IdlePoller ==
  [pc |-> "idle", typ |-> "", payload |-> [t |-> "none", v |-> ""],
   subs |-> {}, cur |-> NoSub, log |-> <<>>, unsubAtStart |-> {}]

NoCall == [op |-> "", client |-> "", sub |-> 0, ret |-> FALSE, n |-> 0]

Init ==
  /\ subscriptions = [s \in {} |-> NoSub]
  /\ clientSubs = [c \in {} |-> <<>>]
  /\ owner = [s \in {} |-> ""]
  /\ unsubscribed = {}
  /\ clients = {}
  /\ register = <<>>
  /\ unregister = <<>>
  /\ send = [c \in Clients |-> <<>>]
  /\ sendClosed = [c \in Clients |-> FALSE]
  /\ conn = [c \in Clients |-> "idle"]
  /\ handlers = EmptyBag
  /\ poller = [p \in Pollers |-> IdlePoller]
  /\ panicked = FALSE
  /\ InitPoll
  /\ InitLock
  /\ last = NoCall

(***************************************************************************)
(* Go maps: assignment and delete.                                         *)
(***************************************************************************)
MapSet(m, k, val) == [x \in DOMAIN m \cup {k} |-> IF x = k THEN val ELSE m[x]]

MapDelete(m, k) == [x \in DOMAIN m \ {k} |-> m[x]]

\* m.clientSubs[clientID], nil for a missing key
SubsOf(cs, clientID) == IF clientID \in DOMAIN cs THEN cs[clientID] ELSE <<>>

\* append(subs[:i], subs[i+1:]...) for the first i with subs[i] = subID
RemoveFirst(subs, subID) ==
  IF \E i \in DOMAIN subs : subs[i] = subID
    THEN LET i == CHOOSE k \in DOMAIN subs :
                    /\ subs[k] = subID
                    /\ \A j \in 1..(k - 1) : subs[j] # subID
         IN SubSeq(subs, 1, i - 1) \o SubSeq(subs, i + 1, Len(subs))
    ELSE subs

(***************************************************************************)
(* Subscription registry (Manager).                                        *)
(***************************************************************************)
\* generateSubscriptionID: 16 bytes of crypto/rand.  Two draws of 128 random
\* bits are taken to differ; the k-th id drawn is called k.
generateSubscriptionID == Cardinality(DOMAIN owner) + 1

\* Subscribe without the append to the client index
Subscribe_NoIndex(clientID, subType, params, subID) ==
  /\ subscriptions' = MapSet(subscriptions, subID,
       [ID |-> subID, Type |-> subType, Params |-> params, ClientID |-> clientID])
  /\ owner' = MapSet(owner, subID, clientID)
  /\ UNCHANGED <<clientSubs, unsubscribed>>

Subscribe(clientID, subType, params, subID) ==
  /\ subscriptions' = MapSet(subscriptions, subID,
       [ID |-> subID, Type |-> subType, Params |-> params, ClientID |-> clientID])
  /\ clientSubs' = MapSet(clientSubs, clientID,
       Append(SubsOf(clientSubs, clientID), subID))
  /\ owner' = MapSet(owner, subID, clientID)
  /\ UNCHANGED unsubscribed

\* Unsubscribe without the ownership test
UnsubscribeOk_AnyOwner(clientID, subID) ==
  subID \in DOMAIN subscriptions

\* the value Unsubscribe returns
UnsubscribeOk(clientID, subID) ==
  /\ subID \in DOMAIN subscriptions
  /\ subscriptions[subID].ClientID = clientID

\* Unsubscribe without delete(m.subscriptions, subID)
Unsubscribe_KeepsEntry(clientID, subID) ==
  IF ~UnsubscribeOk(clientID, subID)
    THEN UNCHANGED registryVars
    ELSE /\ clientSubs' = MapSet(clientSubs, clientID,
              RemoveFirst(SubsOf(clientSubs, clientID), subID))
         /\ unsubscribed' = unsubscribed \cup {subID}
         /\ UNCHANGED <<subscriptions, owner>>

Unsubscribe(clientID, subID) ==
  IF ~UnsubscribeOk(clientID, subID)
    THEN UNCHANGED registryVars
    ELSE /\ subscriptions' = MapDelete(subscriptions, subID)
         /\ clientSubs' = MapSet(clientSubs, clientID,
              RemoveFirst(SubsOf(clientSubs, clientID), subID))
         /\ unsubscribed' = unsubscribed \cup {subID}
         /\ UNCHANGED owner

\* UnsubscribeAll without the deletes in its loop
UnsubscribeAllSubs_KeepsAll(clientID) ==
  subscriptions

\* the subscription map after UnsubscribeAll(clientID)
UnsubscribeAllSubs(clientID) ==
  LET subs == SubsOf(clientSubs, clientID)
  IN [s \in DOMAIN subscriptions \ {subs[i] : i \in DOMAIN subs} |->
        subscriptions[s]]

\* UnsubscribeAll dropping the whole client index, not the caller's entry
UnsubscribeAll_DropsIndex(clientID) ==
  /\ subscriptions' = UnsubscribeAllSubs(clientID)
  /\ clientSubs' = [c \in {} |-> <<>>]
  /\ UNCHANGED <<owner, unsubscribed>>

UnsubscribeAll(clientID) ==
  /\ subscriptions' = UnsubscribeAllSubs(clientID)
  /\ clientSubs' = MapDelete(clientSubs, clientID)
  /\ UNCHANGED <<owner, unsubscribed>>

GetSubscriptionsByType(subType) ==
  {subscriptions[s] : s \in {x \in DOMAIN subscriptions :
                               subscriptions[x].Type = subType}}

GetClientSubscriptions(clientID) == SubsOf(clientSubs, clientID)

(***************************************************************************)
(* Messages on a client's outbound queue.                                  *)
(***************************************************************************)
NoResult == [t |-> "none", v |-> ""]

\* CreateNotification leaving params.subscription at its zero value
CreateNotification_NoSubscription(subID, result) ==
  [jsonrpc |-> "2.0", method |-> "eth_subscription", subscription |-> 0,
   result |-> result, code |-> 0]

\* subscription.CreateNotification
CreateNotification(subID, result) ==
  [jsonrpc |-> "2.0", method |-> "eth_subscription", subscription |-> subID,
   result |-> result, code |-> 0]

\* rpc.Response carrying a result
ResultResponse(result) ==
  [jsonrpc |-> "2.0", method |-> "", subscription |-> 0, result |-> result,
   code |-> 0]

\* rpc.NewErrorResponse
NewErrorResponse(code) ==
  [jsonrpc |-> "2.0", method |-> "", subscription |-> 0, result |-> NoResult,
   code |-> code]

ErrCodeParseError == -32700
ErrCodeInvalidRequest == -32600
ErrCodeInvalidParams == -32602
ErrCodeInternalError == -32603

(***************************************************************************)
(* Non-blocking send on a client's outbound channel:                       *)
(*   select { case client.send <- data: ... default: ... }                 *)
(* A send on a closed channel panics, whatever the buffer holds.           *)
(***************************************************************************)
HasRoom(clientID) == Len(send[clientID]) < SendCap

\* a send that waits for nothing and drops nothing: the queue grows
TrySend_Grows(clientID, data) ==
  IF sendClosed[clientID]
    THEN /\ panicked' = TRUE
         /\ UNCHANGED send
    ELSE /\ send' = [send EXCEPT ![clientID] = Append(@, data)]
         /\ UNCHANGED panicked

TrySend(clientID, data) ==
  IF sendClosed[clientID]
    THEN /\ panicked' = TRUE
         /\ UNCHANGED send
    ELSE /\ send' = IF HasRoom(clientID)
                      THEN [send EXCEPT ![clientID] = Append(@, data)]
                      ELSE send
         /\ UNCHANGED panicked

(***************************************************************************)
(* Connection lifecycle (ServeHTTP) and the hub control loop (Run).        *)
(***************************************************************************)
\* upgrade, NewClient, Register(client), go client.WritePump()
Connect(c) ==
  /\ conn[c] = "idle"
  /\ conn' = [conn EXCEPT ![c] = "open"]
  /\ register' = Append(register, c)
  /\ UNCHANGED <<registryVars, clients, unregister, send, sendClosed,
                 handlers, poller, panicked, last, locking, pollVars>>

\* eth_subscribe requests that have been read and not yet run
PendingSubscribes(hs) ==
  {h \in BagToSet(hs) : h.pc = "start" /\ h.req.method = "eth_subscribe"}

PendingSubscribeCount(hs) ==
  LET RECURSIVE Sum(_)
      Sum(S) == IF S = {} THEN 0
                ELSE LET h == CHOOSE x \in S : TRUE
                     IN CopiesIn(h, hs) + Sum(S \ {h})
  IN Sum(PendingSubscribes(hs))

Handler(c, req) == [client |-> c, req |-> req, pc |-> "start", res |-> NoResult]

\* conn.ReadMessage succeeded: go h.handleMessage(client, message)
ReadMessage(c, req) ==
  /\ conn[c] = "open"
  /\ BagCardinality(handlers) < MaxInflight
  /\ req.method = "eth_subscribe" =>
       Cardinality(DOMAIN owner) + PendingSubscribeCount(handlers) < MaxSubs
  /\ handlers' = handlers (+) SetToBag({Handler(c, req)})
  /\ UNCHANGED <<registryVars, hubVars, send, conn, poller, panicked, last, locking, pollVars>>

\* conn.ReadMessage failed (the peer closed, the read deadline passed, or
\* WritePump closed the connection after a failed write): the deferred
\* client.Close(), Unregister(client), conn.Close()
Disconnect(c) ==
  /\ conn[c] = "open"
  /\ conn' = [conn EXCEPT ![c] = "gone"]
  /\ unregister' = Append(unregister, c)
  /\ UNCHANGED <<registryVars, clients, register, send, sendClosed,
                 handlers, poller, panicked, last, locking, pollVars>>

\* Run: case client := <-b.register
RunRegister ==
  /\ register # <<>>
  /\ clients' = clients \cup {Head(register)}
  /\ register' = Tail(register)
  /\ UNCHANGED <<registryVars, unregister, send, sendClosed, conn,
                 handlers, poller, panicked, last, locking, pollVars>>

\* Run: case client := <-b.unregister
RunUnregister ==
  /\ unregister # <<>>
  /\ unregister' = Tail(unregister)
  /\ IF Head(unregister) \in clients
       THEN /\ clients' = clients \ {Head(unregister)}
            /\ sendClosed' = [sendClosed EXCEPT ![Head(unregister)] = TRUE]
            /\ UnsubscribeAll(Head(unregister))
       ELSE UNCHANGED <<clients, sendClosed, registryVars>>
  /\ UNCHANGED <<register, send, conn, handlers, poller, panicked, last, locking, pollVars>>

(***************************************************************************)
(* WritePump: drains the outbound queue onto the connection.  After a      *)
(* failed write, or once the channel is closed and drained, the pump       *)
(* returns; nothing is taken from the queue any more.                      *)
(***************************************************************************)
\* a writer taking the newest message of the queue
WritePump_TakesNewest(c) ==
  /\ conn[c] # "idle"
  /\ send[c] # <<>>
  /\ send' = [send EXCEPT ![c] = SubSeq(@, 1, Len(@) - 1)]
  /\ UNCHANGED <<registryVars, hubVars, conn, handlers, poller, panicked,
                 last, locking, pollVars>>

\* case message, ok := <-c.send, with ok
WritePump(c) ==
  /\ conn[c] # "idle"
  /\ send[c] # <<>>
  /\ send' = [send EXCEPT ![c] = Tail(@)]
  /\ UNCHANGED <<registryVars, hubVars, conn, handlers, poller, panicked,
                 last, locking, pollVars>>

(***************************************************************************)
(* Request handlers: one goroutine per inbound message.                    *)
(***************************************************************************)
\* the type strings handleSubscribe accepts
HandlerSubTypes == {"newHeads", "logs", "newPendingTransactions", "syncing"}

\* filterParams: params[1] for "logs", nil otherwise
FilterParams(req) == IF req.typ = "logs" THEN req.params ELSE JAbsent

\* the goroutine h goes on as h2, or ends
Continue(h, h2) == (handlers (-) SetToBag({h})) (+) SetToBag({h2})

Finish(h) == handlers (-) SetToBag({h})

\* handleMessage without the test of the jsonrpc field
EnvelopeError_AnyVersion(req) ==
  IF req.envelope = "unparsable" THEN ErrCodeParseError
  ELSE IF req.method = "" THEN ErrCodeInvalidRequest
  ELSE 0

\* handleMessage: the error code of its early returns, 0 when the message
\* passes on to the switch on req.Method
EnvelopeError(req) ==
  IF req.envelope = "unparsable" THEN ErrCodeParseError
  ELSE IF req.envelope = "version" THEN ErrCodeInvalidRequest
  ELSE IF req.method = "" THEN ErrCodeInvalidRequest
  ELSE 0

\* handleMessage: where the message goes
Route(req) ==
  IF req.envelope \in {"batch", "badbatch"} THEN "batch"
  ELSE IF EnvelopeError(req) # 0 THEN "invalid"
  ELSE IF req.method = "eth_subscribe" THEN "subscribe"
  ELSE IF req.method = "eth_unsubscribe" THEN "unsubscribe"
  ELSE "forward"

\* handleMessage returning early: sendError
HandleInvalid(h) ==
  /\ BagIn(h, handlers)
  /\ h.pc = "start"
  /\ Route(h.req) = "invalid"
  /\ TrySend(h.client, NewErrorResponse(EnvelopeError(h.req)))
  /\ handlers' = Finish(h)
  /\ UNCHANGED <<registryVars, hubVars, conn, poller, last, locking, pollVars>>

\* handleBatchMessage: the raw message goes upstream; the upstream body is
\* passed on, and nothing is sent when the upstream call fails
HandleBatch(h, ok) ==
  /\ BagIn(h, handlers)
  /\ h.pc = "start"
  /\ Route(h.req) = "batch"
  /\ IF ok
       THEN TrySend(h.client, ResultResponse([t |-> "upstream", v |-> "batch"]))
       ELSE UNCHANGED <<send, panicked>>
  /\ handlers' = Finish(h)
  /\ UNCHANGED <<registryVars, hubVars, conn, poller, last, locking, pollVars>>

\* handleMessage forwarding any other method: h.client.Call and the reply
HandleForward(h, ok) ==
  /\ BagIn(h, handlers)
  /\ h.pc = "start"
  /\ Route(h.req) = "forward"
  /\ TrySend(h.client,
       IF ok THEN ResultResponse([t |-> "upstream", v |-> h.req.method])
             ELSE NewErrorResponse(ErrCodeInternalError))
  /\ handlers' = Finish(h)
  /\ UNCHANGED <<registryVars, hubVars, conn, poller, last, locking, pollVars>>

\* handleSubscribe up to the reply
HandleSubscribe(h) ==
  /\ BagIn(h, handlers)
  /\ h.pc = "start"
  /\ Route(h.req) = "subscribe"
  /\ IF h.req.args # "ok" \/ h.req.typ \notin HandlerSubTypes
       THEN /\ TrySend(h.client, NewErrorResponse(ErrCodeInvalidParams))
            /\ handlers' = Finish(h)
            /\ UNCHANGED registryVars
       ELSE /\ Subscribe(h.client, h.req.typ, FilterParams(h.req),
                         generateSubscriptionID)
            /\ handlers' = Continue(h,
                 [h EXCEPT !.pc = "reply",
                           !.res = [t |-> "subid", v |-> generateSubscriptionID]])
            /\ UNCHANGED <<send, panicked>>
  /\ UNCHANGED <<hubVars, conn, poller, last, locking, pollVars>>

\* handleUnsubscribe returning early: params is not a list of strings
HandleUnsubscribeInvalid(h) ==
  /\ BagIn(h, handlers)
  /\ h.pc = "start"
  /\ Route(h.req) = "unsubscribe"
  /\ h.req.args # "ok"
  /\ TrySend(h.client, NewErrorResponse(ErrCodeInvalidParams))
  /\ handlers' = Finish(h)
  /\ UNCHANGED <<registryVars, hubVars, conn, poller, last, locking, pollVars>>

\* handleUnsubscribe passing the id of the subscription's owner, not client.ID
HandleUnsubscribe_AsOwner(h) ==
  /\ BagIn(h, handlers)
  /\ h.pc = "start"
  /\ Route(h.req) = "unsubscribe"
  /\ h.req.args = "ok"
  /\ LET o == IF h.req.sub \in DOMAIN subscriptions
                THEN subscriptions[h.req.sub].ClientID
                ELSE h.client
     IN /\ Unsubscribe(o, h.req.sub)
        /\ handlers' = Continue(h,
             [h EXCEPT !.pc = "reply",
                       !.res = [t |-> "bool", v |-> UnsubscribeOk(o, h.req.sub)]])
  /\ UNCHANGED <<hubVars, conn, send, poller, panicked, last, locking, pollVars>>

\* handleUnsubscribe up to the reply
HandleUnsubscribe(h) ==
  /\ BagIn(h, handlers)
  /\ h.pc = "start"
  /\ Route(h.req) = "unsubscribe"
  /\ h.req.args = "ok"
  /\ Unsubscribe(h.client, h.req.sub)
  /\ handlers' = Continue(h,
       [h EXCEPT !.pc = "reply",
                 !.res = [t |-> "bool", v |-> UnsubscribeOk(h.client, h.req.sub)]])
  /\ UNCHANGED <<hubVars, conn, send, poller, panicked, last, locking, pollVars>>

\* the closing select { case client.Send() <- data: default: } of both
HandleReply(h) ==
  /\ BagIn(h, handlers)
  /\ h.pc = "reply"
  /\ TrySend(h.client, ResultResponse(h.res))
  /\ handlers' = Finish(h)
  /\ UNCHANGED <<registryVars, hubVars, conn, poller, last, locking, pollVars>>

(***************************************************************************)
(* Broadcast fan-out (BroadcastNewHead, BroadcastLog, BroadcastGasPrice,   *)
(* BroadcastBlockReceipts, BroadcastSyncing), run by a poller goroutine.   *)
(* While a broadcast is in progress poller[p].log records what happened to *)
(* each subscription of the snapshot so far, in order, and                 *)
(* poller[p].unsubAtStart the ids already unsubscribed when it began.      *)
(***************************************************************************)
\* BroadcastSyncing passing the status on whatever it says
NotificationResult_AlwaysStatus(typ, payload) ==
  payload

\* the result put in the notification
NotificationResult(typ, payload) ==
  IF typ = "syncing" /\ ~payload.v.Syncing
    THEN [t |-> "bool", v |-> FALSE]
    ELSE payload

\* BroadcastLog: the filter of a subscription and whether the log passes it
SubFilter(sub) ==
  IF sub.Params.t # "absent" THEN UnmarshalJSON(sub.Params) ELSE ZeroFilter

\* BroadcastLog without the MatchesLogFilter test
Passes_NoFilter(typ, payload, sub) ==
  TRUE

Passes(typ, payload, sub) ==
  typ = "logs" => MatchesLogFilter(payload.v, SubFilter(sub))

LogEntry(sub, outcome) ==
  [sub |-> sub.ID, client |-> sub.ClientID, outcome |-> outcome]

\* the loop is done with sub and goes on
AfterSub(p, sub, outcome) ==
  [poller[p] EXCEPT !.pc = "loop",
                    !.subs = @ \ {sub},
                    !.cur = NoSub,
                    !.log = Append(@, LogEntry(sub, outcome))]

\* subs := b.subManager.GetSubscriptionsByType(...); if len(subs) == 0 return
Broadcasting(typ, payload) ==
  IF GetSubscriptionsByType(typ) = {}
    THEN IdlePoller
    ELSE [pc |-> "loop", typ |-> typ, payload |-> payload,
          subs |-> GetSubscriptionsByType(typ), cur |-> NoSub,
          log |-> <<>>, unsubAtStart |-> unsubscribed]

BroadcastBegin(p, typ, payload) ==
  /\ poller[p].pc = "idle"
  /\ poller' = [poller EXCEPT ![p] = Broadcasting(typ, payload)]
  /\ UNCHANGED <<registryVars, hubVars, conn, send, handlers, panicked,
                 last, locking, pollVars>>

\* one iteration up to the lookup in SendToClient:
\*   filter, CreateNotification, client, ok := b.clients[clientID]
SendToClientLookup(p, sub) ==
  /\ poller[p].pc = "loop"
  /\ sub \in poller[p].subs
  /\ poller' = [poller EXCEPT ![p] =
       IF ~Passes(poller[p].typ, poller[p].payload, sub)
         THEN AfterSub(p, sub, "nomatch")
       ELSE IF sub.ClientID \notin clients
         THEN AfterSub(p, sub, "absent")
       ELSE [poller[p] EXCEPT !.pc = "send", !.cur = sub]]
  /\ UNCHANGED <<registryVars, hubVars, conn, send, handlers, panicked,
                 last, locking, pollVars>>

\* SendToClient enqueueing on the queue of a client other than the owner
SendToClientSend_OtherClient(p) ==
  /\ poller[p].pc = "send"
  /\ TrySend(CHOOSE d \in Clients : d # poller[p].cur.ClientID,
       CreateNotification(poller[p].cur.ID,
         NotificationResult(poller[p].typ, poller[p].payload)))
  /\ poller' = [poller EXCEPT ![p] =
       AfterSub(p, poller[p].cur,
         IF HasRoom(CHOOSE d \in Clients : d # poller[p].cur.ClientID)
           THEN "sent" ELSE "dropped")]
  /\ UNCHANGED <<registryVars, hubVars, conn, handlers, last, locking, pollVars>>

\* the select of SendToClient
SendToClientSend(p) ==
  /\ poller[p].pc = "send"
  /\ TrySend(poller[p].cur.ClientID,
       CreateNotification(poller[p].cur.ID,
         NotificationResult(poller[p].typ, poller[p].payload)))
  /\ poller' = [poller EXCEPT ![p] =
       IF sendClosed[poller[p].cur.ClientID] THEN poller[p]
       ELSE AfterSub(p, poller[p].cur,
              IF HasRoom(poller[p].cur.ClientID) THEN "sent" ELSE "dropped")]
  /\ UNCHANGED <<registryVars, hubVars, conn, handlers, last, locking, pollVars>>

\* the loop has run over every subscription: the broadcast returns
BroadcastReturn(p) ==
  /\ poller[p].pc = "loop"
  /\ poller[p].subs = {}
  /\ poller' = [poller EXCEPT ![p] = IdlePoller]
  /\ UNCHANGED <<registryVars, hubVars, conn, send, handlers, panicked, last, locking, pollVars>>

(***************************************************************************)
(* The system from construction: connections open and close, their         *)
(* requests subscribe to and unsubscribe from newHeads, the block poller   *)
(* broadcasts headers.  A panic in any goroutine ends the process.         *)
(***************************************************************************)
ConnRequests ==
  {req \in Requests :
     req.method = "eth_subscribe" => req.typ = "newHeads"}

ConnBroadcasts == {inp \in BroadcastInputs("blocks") : inp[1] = "newHeads"}

Next ==
  /\ ~panicked
  /\ \/ \E c \in Sessions : Connect(c)
     \/ \E c \in Clients, req \in ConnRequests : ReadMessage(c, req)
     \/ \E c \in Clients : Disconnect(c)
     \/ RunRegister
     \/ RunUnregister
     \/ \E c \in Clients : WritePump(c)
     \/ \E h \in BagToSet(handlers) : HandleSubscribe(h)
     \/ \E h \in BagToSet(handlers) : HandleUnsubscribe(h)
     \/ \E h \in BagToSet(handlers) : HandleReply(h)
     \/ \E inp \in ConnBroadcasts : BroadcastBegin("blocks", inp[1], inp[2])
     \/ \E p \in Pollers : \E sub \in poller[p].subs : SendToClientLookup(p, sub)
     \/ \E p \in Pollers : SendToClientSend(p)
     \/ \E p \in Pollers : BroadcastReturn(p)

Spec == Init /\ [][Next]_vars

(***************************************************************************)
(* The fan-out of headers: every client is connected and registered and    *)
(* stays so; requests subscribe to and unsubscribe from newHeads, the      *)
(* block poller broadcasts headers, gas prices and receipts.               *)
(***************************************************************************)
InitFan ==
  /\ subscriptions = [s \in {} |-> NoSub]
  /\ clientSubs = [c \in {} |-> <<>>]
  /\ owner = [s \in {} |-> ""]
  /\ unsubscribed = {}
  /\ clients = Clients
  /\ register = <<>>
  /\ unregister = <<>>
  /\ send = [c \in Clients |-> <<>>]
  /\ sendClosed = [c \in Clients |-> FALSE]
  /\ conn = [c \in Clients |-> "open"]
  /\ handlers = EmptyBag
  /\ poller = [p \in Pollers |-> IdlePoller]
  /\ panicked = FALSE
  /\ InitPoll
  /\ InitLock
  /\ last = NoCall

FanRequests ==
  {req \in Requests :
     req.method = "eth_subscribe" => req.typ \in {"newHeads", "gasPrice"}}

FanBroadcasts == {inp \in BroadcastInputs("blocks") : inp[1] # "logs"}

NextFan ==
  /\ ~panicked
  /\ \/ \E c \in Clients, req \in FanRequests : ReadMessage(c, req)
     \/ \E c \in Clients : WritePump(c)
     \/ \E h \in BagToSet(handlers) : HandleSubscribe(h)
     \/ \E h \in BagToSet(handlers) : HandleUnsubscribe(h)
     \/ \E h \in BagToSet(handlers) : HandleReply(h)
     \/ \E inp \in FanBroadcasts : BroadcastBegin("blocks", inp[1], inp[2])
     \/ \E p \in Pollers : \E sub \in poller[p].subs : SendToClientLookup(p, sub)
     \/ \E p \in Pollers : SendToClientSend(p)
     \/ \E p \in Pollers : BroadcastReturn(p)

SpecFan == InitFan /\ [][NextFan]_vars

(***************************************************************************)
(* The fan-out of logs and sync status: every client is connected and      *)
(* registered and stays so; requests subscribe to logs, with and without   *)
(* a filter, and to syncing; both pollers broadcast.                       *)
(***************************************************************************)
LogRequests ==
  {req \in Requests : req.method = "eth_subscribe" /\ req.typ \in {"logs", "syncing"}}

LogBroadcasts(p) == {inp \in BroadcastInputs(p) : inp[1] \in {"logs", "syncing"}}

NextLogs ==
  /\ ~panicked
  /\ \/ \E c \in Clients, req \in LogRequests : ReadMessage(c, req)
     \/ \E c \in Clients : WritePump(c)
     \/ \E h \in BagToSet(handlers) : HandleSubscribe(h)
     \/ \E h \in BagToSet(handlers) : HandleReply(h)
     \/ \E p \in Pollers : \E inp \in LogBroadcasts(p) :
          BroadcastBegin(p, inp[1], inp[2])
     \/ \E p \in Pollers : \E sub \in poller[p].subs : SendToClientLookup(p, sub)
     \/ \E p \in Pollers : SendToClientSend(p)
     \/ \E p \in Pollers : BroadcastReturn(p)

SpecLogs == InitFan /\ [][NextLogs]_vars

(***************************************************************************)
(* Request validation: every client is connected and registered and stays  *)
(* so; the clients of Sessions send well-formed and malformed messages,    *)
(* the upstream node answers or fails.                                     *)
(***************************************************************************)
NextRpc ==
  /\ ~panicked
  /\ \/ \E c \in Sessions, req \in RpcRequests : ReadMessage(c, req)
     \/ \E c \in Clients : WritePump(c)
     \/ \E h \in BagToSet(handlers) : HandleInvalid(h)
     \/ \E h \in BagToSet(handlers), ok \in BOOLEAN : HandleBatch(h, ok)
     \/ \E h \in BagToSet(handlers), ok \in BOOLEAN : HandleForward(h, ok)
     \/ \E h \in BagToSet(handlers) : HandleSubscribe(h)
     \/ \E h \in BagToSet(handlers) : HandleUnsubscribeInvalid(h)
     \/ \E h \in BagToSet(handlers) : HandleUnsubscribe(h)
     \/ \E h \in BagToSet(handlers) : HandleReply(h)

SpecRpc == InitFan /\ [][NextRpc]_vars

(***************************************************************************)
(* The registry on its own: any sequence of calls of its methods, each     *)
(* atomic under Manager.mu, by any caller.                                 *)
(***************************************************************************)
SubscriptionTypes ==
  {"newHeads", "logs", "newPendingTransactions", "syncing", "gasPrice",
   "blockReceipts"}

RegParams == {JAbsent, JObj(JStr(<<"A">>), JAbsent)}

CallSubscribe(c, subType, params) ==
  /\ Cardinality(DOMAIN owner) < MaxSubs
  /\ Subscribe(c, subType, params, generateSubscriptionID)
  /\ last' = [op |-> "Subscribe", client |-> c, sub |-> generateSubscriptionID,
              ret |-> TRUE, n |-> 0]
  /\ UNCHANGED <<hubVars, send, conn, handlers, poller, panicked, pollVars, locking>>

CallUnsubscribe(c, subID) ==
  /\ Unsubscribe(c, subID)
  /\ last' = [op |-> "Unsubscribe", client |-> c, sub |-> subID,
              ret |-> UnsubscribeOk(c, subID), n |-> 0]
  /\ UNCHANGED <<hubVars, send, conn, handlers, poller, panicked, pollVars, locking>>

CallUnsubscribeAll(c) ==
  /\ UnsubscribeAll(c)
  /\ last' = [op |-> "UnsubscribeAll", client |-> c, sub |-> 0, ret |-> TRUE,
              n |-> Len(GetClientSubscriptions(c))]
  /\ UNCHANGED <<hubVars, send, conn, handlers, poller, panicked, pollVars, locking>>

NextReg ==
  \/ \E c \in Clients, subType \in SubscriptionTypes, params \in RegParams :
       CallSubscribe(c, subType, params)
  \/ \E c \in Clients, subID \in SubIds : CallUnsubscribe(c, subID)
  \/ \E c \in Clients : CallUnsubscribeAll(c)

SpecReg == Init /\ [][NextReg]_vars

(***************************************************************************)
(* The pollers (pollBlocks, pollSyncing) against a node that produces      *)
(* blocks, changes its gas price and fails calls, while the clients of     *)
(* Sessions subscribe and unsubscribe.  Every client is registered.  Each  *)
(* upstream call of a tick is a step; a broadcast that a tick makes runs   *)
(* its loop in the poller's goroutine before the tick goes on.  The        *)
(* clients do not read in these runs: a queue that fills up stays full.    *)
(***************************************************************************)
GasPrices == {1, 2}

\* config.SyncThreshold and the block ages the sync check meets, in seconds
SyncThreshold == 15
BlockAges == {0, 15, 16}

\* the logs GetBlockLogs returns for a block, in the order of the response:
\* two for block 1, none for the others
BlockLogs(n) ==
  IF n = 1
    THEN <<[Address |-> <<"a">>, Topics |-> <<>>, BlockNumber |-> n,
            LogIndex |-> 0],
           [Address |-> <<"a">>, Topics |-> <<>>, BlockNumber |-> n,
            LogIndex |-> 1]>>
    ELSE <<>>

SubscribedTo(typ) == GetSubscriptionsByType(typ) # {}

\* an upstream call of a poller failed; a failed fetch of the logs or the
\* receipts of a block stays outstanding until that fetch succeeds
Failure(call) ==
  [pollLog EXCEPT
     !.failures = @ + 1,
     !.outstanding =
        IF call[1] \in {"GetBlockLogs", "GetBlockReceipts"}
          THEN @ \cup {call} ELSE @]

\* Manager.Subscribe and Manager.Unsubscribe called for a client
PollSubscribe(c, subType) ==
  /\ Cardinality(DOMAIN owner) < MaxSubs
  /\ Subscribe(c, subType, JAbsent, generateSubscriptionID)
  /\ UNCHANGED <<hubVars, send, conn, handlers, poller, panicked, last, locking,
                 pollVars>>

PollUnsubscribe(c, subID) ==
  /\ UnsubscribeOk(c, subID)
  /\ Unsubscribe(c, subID)
  /\ UNCHANGED <<hubVars, send, conn, handlers, poller, panicked, last, locking,
                 pollVars>>

\* the node produces a block
NodeNewBlock ==
  /\ upstream.blockNumber < MaxBlocks
  /\ upstream' = [upstream EXCEPT !.blockNumber = @ + 1]
  /\ pollLog' = [pollLog EXCEPT !.owed = @ \cup
       {<<upstream.blockNumber + 1, sub.ID>> :
          sub \in GetSubscriptionsByType("blockReceipts")}]
  /\ UNCHANGED <<registryVars, hubVars, send, conn, handlers, poller, panicked,
                 last, locking, lastBlockNum, lastGasPrice, blocksTick, syncTick,
                 UpstreamErrorsTotal>>

\* the gas price of the node changes
NodeGasPrice(g) ==
  /\ g # upstream.gasPrice
  /\ upstream' = [upstream EXCEPT !.gasPrice = g]
  /\ UNCHANGED <<registryVars, hubVars, send, conn, handlers, poller, panicked,
                 last, locking, lastBlockNum, lastGasPrice, blocksTick, syncTick,
                 UpstreamErrorsTotal, pollLog>>

\* pollBlocks asking for the block number once, before its loop
BlocksFetchNumber_AsksOnce(res) ==
  /\ blocksTick.pc = "wait"
  /\ poller["blocks"].pc = "idle"
  /\ IF res = "fail"
       THEN /\ pollLog.failures < MaxErrors
            /\ blocksTick' = NoTick
            /\ UpstreamErrorsTotal' = UpstreamErrorsTotal + 1
            /\ pollLog' = Failure(<<"GetBlockNumber", 0>>)
       ELSE /\ blocksTick' = [NoTick EXCEPT
                 !.pc = "gas",
                 !.blockNum = 0]
            /\ UNCHANGED <<UpstreamErrorsTotal, pollLog>>
  /\ UNCHANGED <<registryVars, hubVars, send, conn, handlers, poller, panicked,
                 last, locking, upstream, lastBlockNum, lastGasPrice, syncTick>>

\* pollBlocks, a tick: client.GetBlockNumber
BlocksFetchNumber(res) ==
  /\ blocksTick.pc = "wait"
  /\ poller["blocks"].pc = "idle"
  /\ IF res = "fail"
       THEN /\ pollLog.failures < MaxErrors
            /\ blocksTick' = NoTick
            /\ UpstreamErrorsTotal' = UpstreamErrorsTotal + 1
            /\ pollLog' = Failure(<<"GetBlockNumber", 0>>)
       ELSE /\ blocksTick' = [NoTick EXCEPT
                 !.pc = "gas",
                 !.blockNum = IF res = "empty" THEN 0 ELSE upstream.blockNumber]
            /\ UNCHANGED <<UpstreamErrorsTotal, pollLog>>
  /\ UNCHANGED <<registryVars, hubVars, send, conn, handlers, poller, panicked,
                 last, locking, upstream, lastBlockNum, lastGasPrice, syncTick>>

\* pollBlocks comparing the price with one it never stores
BlocksGasPrice_EveryTick(res) ==
  /\ blocksTick.pc = "gas"
  /\ IF ~SubscribedTo("gasPrice")
       THEN /\ res = "ok"
            /\ blocksTick' = [blocksTick EXCEPT !.pc = "head", !.call = <<>>]
            /\ UNCHANGED <<poller, lastGasPrice, pollLog>>
       ELSE IF res = "fail"
       THEN /\ pollLog.failures < MaxErrors
            /\ blocksTick' = [blocksTick EXCEPT !.pc = "head", !.call = <<>>]
            /\ pollLog' = Failure(<<"GetGasPrice", 0>>)
            /\ UNCHANGED <<poller, lastGasPrice>>
       ELSE /\ blocksTick' = [blocksTick EXCEPT
                 !.pc = "head",
                 !.call = <<"BroadcastGasPrice", upstream.gasPrice>>]
            /\ poller' = [poller EXCEPT !["blocks"] =
                 Broadcasting("gasPrice",
                   [t |-> "gasPrice", v |-> upstream.gasPrice])]
            /\ UNCHANGED lastGasPrice
            /\ pollLog' = [pollLog EXCEPT !.gas = upstream.gasPrice]
  /\ UNCHANGED <<registryVars, hubVars, send, conn, handlers, panicked, last, locking,
                 upstream, lastBlockNum, syncTick, UpstreamErrorsTotal>>

\* pollBlocks: the gas price, fetched when there are gasPrice subscribers and
\* broadcast when it differs from lastGasPrice
BlocksGasPrice(res) ==
  /\ blocksTick.pc = "gas"
  /\ IF ~SubscribedTo("gasPrice")
       THEN /\ res = "ok"
            /\ blocksTick' = [blocksTick EXCEPT !.pc = "head", !.call = <<>>]
            /\ UNCHANGED <<poller, lastGasPrice, pollLog>>
       ELSE IF res = "fail"
       THEN /\ pollLog.failures < MaxErrors
            /\ blocksTick' = [blocksTick EXCEPT !.pc = "head", !.call = <<>>]
            /\ pollLog' = Failure(<<"GetGasPrice", 0>>)
            /\ UNCHANGED <<poller, lastGasPrice>>
       ELSE IF upstream.gasPrice = lastGasPrice
       THEN /\ blocksTick' = [blocksTick EXCEPT !.pc = "head", !.call = <<>>]
            /\ UNCHANGED <<poller, lastGasPrice, pollLog>>
       ELSE /\ blocksTick' = [blocksTick EXCEPT
                 !.pc = "head",
                 !.call = <<"BroadcastGasPrice", upstream.gasPrice>>]
            /\ poller' = [poller EXCEPT !["blocks"] =
                 Broadcasting("gasPrice",
                   [t |-> "gasPrice", v |-> upstream.gasPrice])]
            /\ lastGasPrice' = upstream.gasPrice
            /\ pollLog' = [pollLog EXCEPT !.gas = upstream.gasPrice]
  /\ UNCHANGED <<registryVars, hubVars, send, conn, handlers, panicked, last, locking,
                 upstream, lastBlockNum, syncTick, UpstreamErrorsTotal>>

\* pollBlocks recording the block whose header it failed to fetch
BlocksHead_ForgetsFailedBlock(res) ==
  /\ blocksTick.pc = "head"
  /\ poller["blocks"].pc = "idle"
  /\ IF blocksTick.blockNum = 0 \/ blocksTick.blockNum = lastBlockNum
       THEN /\ res = "ok"
            /\ blocksTick' = [blocksTick EXCEPT !.pc = "wait", !.call = <<>>]
            /\ UNCHANGED <<poller, UpstreamErrorsTotal, pollLog, lastBlockNum>>
       ELSE IF res = "fail"
       THEN /\ pollLog.failures < MaxErrors
            /\ blocksTick' = [blocksTick EXCEPT !.pc = "wait", !.call = <<>>]
            /\ UpstreamErrorsTotal' = UpstreamErrorsTotal + 1
            /\ pollLog' = Failure(<<"GetFullBlock", blocksTick.blockNum>>)
            /\ lastBlockNum' = blocksTick.blockNum
            /\ UNCHANGED poller
       ELSE IF res = "nil"
       THEN /\ blocksTick' = [blocksTick EXCEPT !.pc = "wait", !.call = <<>>]
            /\ UNCHANGED <<poller, UpstreamErrorsTotal, pollLog, lastBlockNum>>
       ELSE /\ blocksTick' = [blocksTick EXCEPT
                 !.pc = "logs",
                 !.call = <<"BroadcastNewHead", blocksTick.blockNum>>]
            /\ poller' = [poller EXCEPT !["blocks"] =
                 Broadcasting("newHeads",
                   [t |-> "header", v |-> blocksTick.blockNum])]
            /\ pollLog' = [pollLog EXCEPT !.head = blocksTick.blockNum]
            /\ UNCHANGED <<UpstreamErrorsTotal, lastBlockNum>>
  /\ UNCHANGED <<registryVars, hubVars, send, conn, handlers, panicked, last, locking,
                 upstream, lastGasPrice, syncTick>>

\* pollBlocks: the tick ends when the number is empty or is lastBlockNum;
\* otherwise client.GetFullBlock and BroadcastNewHead
BlocksHead(res) ==
  /\ blocksTick.pc = "head"
  /\ poller["blocks"].pc = "idle"
  /\ IF blocksTick.blockNum = 0 \/ blocksTick.blockNum = lastBlockNum
       THEN /\ res = "ok"
            /\ blocksTick' = [blocksTick EXCEPT !.pc = "wait", !.call = <<>>]
            /\ UNCHANGED <<poller, UpstreamErrorsTotal, pollLog>>
       ELSE IF res = "fail"
       THEN /\ pollLog.failures < MaxErrors
            /\ blocksTick' = [blocksTick EXCEPT !.pc = "wait", !.call = <<>>]
            /\ UpstreamErrorsTotal' = UpstreamErrorsTotal + 1
            /\ pollLog' = Failure(<<"GetFullBlock", blocksTick.blockNum>>)
            /\ UNCHANGED poller
       ELSE IF res = "nil"
       THEN /\ blocksTick' = [blocksTick EXCEPT !.pc = "wait", !.call = <<>>]
            /\ UNCHANGED <<poller, UpstreamErrorsTotal, pollLog>>
       ELSE /\ blocksTick' = [blocksTick EXCEPT
                 !.pc = "logs",
                 !.call = <<"BroadcastNewHead", blocksTick.blockNum>>]
            /\ poller' = [poller EXCEPT !["blocks"] =
                 Broadcasting("newHeads",
                   [t |-> "header", v |-> blocksTick.blockNum])]
            /\ pollLog' = [pollLog EXCEPT !.head = blocksTick.blockNum]
            /\ UNCHANGED UpstreamErrorsTotal
  /\ UNCHANGED <<registryVars, hubVars, send, conn, handlers, panicked, last, locking,
                 upstream, lastBlockNum, lastGasPrice, syncTick>>

\* pollBlocks: client.GetBlockLogs
BlocksLogs(res) ==
  /\ blocksTick.pc = "logs"
  /\ poller["blocks"].pc = "idle"
  /\ IF res = "fail"
       THEN /\ pollLog.failures < MaxErrors
            /\ blocksTick' = [blocksTick EXCEPT !.pc = "receipts", !.call = <<>>]
            /\ pollLog' = Failure(<<"GetBlockLogs", blocksTick.blockNum>>)
       ELSE /\ blocksTick' = [blocksTick EXCEPT
                 !.pc = "log",
                 !.call = <<>>,
                 !.logs = BlockLogs(blocksTick.blockNum)]
            /\ pollLog' = [pollLog EXCEPT
                 !.outstanding = @ \ {<<"GetBlockLogs", blocksTick.blockNum>>}]
  /\ UNCHANGED <<registryVars, hubVars, send, conn, handlers, poller, panicked,
                 last, locking, upstream, lastBlockNum, lastGasPrice, syncTick,
                 UpstreamErrorsTotal>>

\* pollBlocks ranging over the logs from the last to the first
BlocksLog_LastFirst ==
  /\ blocksTick.pc = "log"
  /\ poller["blocks"].pc = "idle"
  /\ IF blocksTick.logs = <<>>
       THEN /\ blocksTick' = [blocksTick EXCEPT !.pc = "receipts", !.call = <<>>]
            /\ UNCHANGED poller
       ELSE /\ blocksTick' = [blocksTick EXCEPT
                 !.logs = SubSeq(@, 1, Len(@) - 1),
                 !.call = <<"BroadcastLog", blocksTick.blockNum>>]
            /\ poller' = [poller EXCEPT !["blocks"] =
                 Broadcasting("logs", [t |-> "log", v |-> blocksTick.logs[Len(blocksTick.logs)]])]
  /\ UNCHANGED <<registryVars, hubVars, send, conn, handlers, panicked, last, locking,
                 upstream, lastBlockNum, lastGasPrice, syncTick,
                 UpstreamErrorsTotal, pollLog>>

\* pollBlocks: for _, logEntry := range logs { bc.BroadcastLog(&logEntry) }
BlocksLog ==
  /\ blocksTick.pc = "log"
  /\ poller["blocks"].pc = "idle"
  /\ IF blocksTick.logs = <<>>
       THEN /\ blocksTick' = [blocksTick EXCEPT !.pc = "receipts", !.call = <<>>]
            /\ UNCHANGED poller
       ELSE /\ blocksTick' = [blocksTick EXCEPT
                 !.logs = Tail(@),
                 !.call = <<"BroadcastLog", blocksTick.blockNum>>]
            /\ poller' = [poller EXCEPT !["blocks"] =
                 Broadcasting("logs", [t |-> "log", v |-> Head(blocksTick.logs)])]
  /\ UNCHANGED <<registryVars, hubVars, send, conn, handlers, panicked, last, locking,
                 upstream, lastBlockNum, lastGasPrice, syncTick,
                 UpstreamErrorsTotal, pollLog>>

\* pollBlocks never recording the block it has broadcast
BlocksReceipts_ForgetsBlock(res) ==
  /\ blocksTick.pc = "receipts"
  /\ poller["blocks"].pc = "idle"
  /\ res = "ok"
  /\ blocksTick' = [blocksTick EXCEPT !.pc = "wait", !.call = <<>>]
  /\ UNCHANGED <<registryVars, hubVars, send, conn, handlers, poller, panicked,
                 last, locking, upstream, lastBlockNum, lastGasPrice, syncTick,
                 UpstreamErrorsTotal, pollLog>>

\* pollBlocks: the receipts, fetched and broadcast when there are
\* blockReceipts subscribers; lastBlockNum = blockNum
BlocksReceipts(res) ==
  /\ blocksTick.pc = "receipts"
  /\ poller["blocks"].pc = "idle"
  /\ IF ~SubscribedTo("blockReceipts")
       THEN /\ res = "ok"
            /\ blocksTick' = [blocksTick EXCEPT !.pc = "wait", !.call = <<>>]
            /\ UNCHANGED <<poller, pollLog>>
       ELSE IF res = "fail"
       THEN /\ pollLog.failures < MaxErrors
            /\ blocksTick' = [blocksTick EXCEPT !.pc = "wait", !.call = <<>>]
            /\ pollLog' = Failure(<<"GetBlockReceipts", blocksTick.blockNum>>)
            /\ UNCHANGED poller
       ELSE /\ blocksTick' = [blocksTick EXCEPT
                 !.pc = "wait",
                 !.call = <<"BroadcastBlockReceipts", blocksTick.blockNum>>]
            /\ poller' = [poller EXCEPT !["blocks"] =
                 Broadcasting("blockReceipts",
                   [t |-> "receipts", v |-> blocksTick.blockNum])]
            /\ pollLog' = [pollLog EXCEPT
                 !.receipts = @ \cup {blocksTick.blockNum},
                 !.outstanding = @ \ {<<"GetBlockReceipts", blocksTick.blockNum>>}]
  /\ lastBlockNum' = blocksTick.blockNum
  /\ UNCHANGED <<registryVars, hubVars, send, conn, handlers, panicked, last, locking,
                 upstream, lastGasPrice, syncTick, UpstreamErrorsTotal>>

\* what the sync check finds: the block-number query fails or times out, the
\* block fetch fails, there is no such block, the timestamp does not parse or
\* is zero, or the block has an age
SyncOutcomes ==
  {[kind |-> k, age |-> 0] :
     k \in {"numfail", "blockfail", "nilblock", "badtime", "zerotime"}}
  \cup {[kind |-> "block", age |-> a] : a \in BlockAges}

\* pollSyncing with a block of exactly the threshold age counted as stale
SyncStatusOf_AtThreshold(outcome) ==
  IF outcome.kind = "block"
    THEN [Syncing |-> outcome.age >= SyncThreshold,
          CurrentBlock |-> upstream.blockNumber]
    ELSE [Syncing |-> TRUE, CurrentBlock |-> 0]

\* pollSyncing: the status it builds
SyncStatusOf(outcome) ==
  IF outcome.kind = "block"
    THEN [Syncing |-> outcome.age > SyncThreshold,
          CurrentBlock |-> upstream.blockNumber]
    ELSE [Syncing |-> TRUE, CurrentBlock |-> 0]

\* pollSyncing querying the node whether or not anyone subscribed
SyncTick_AlwaysQueries(outcome) ==
  /\ poller["sync"].pc = "idle"
  /\ syncTick' = [syncTick EXCEPT
         !.queries = IF outcome.kind = "numfail" THEN 1 ELSE 2]
  /\ poller' = [poller EXCEPT !["sync"] =
            Broadcasting("syncing", [t |-> "sync", v |-> SyncStatusOf(outcome)])]
  /\ UNCHANGED <<registryVars, hubVars, send, conn, handlers, panicked, last, locking,
                 upstream, lastBlockNum, lastGasPrice, blocksTick,
                 UpstreamErrorsTotal, pollLog>>

\* pollSyncing, a tick
SyncTick(outcome) ==
  /\ poller["sync"].pc = "idle"
  /\ IF ~SubscribedTo("syncing")
       THEN /\ syncTick' = [syncTick EXCEPT !.queries = 0]
            /\ UNCHANGED poller
       ELSE /\ syncTick' = [syncTick EXCEPT
                 !.queries = IF outcome.kind = "numfail" THEN 1 ELSE 2]
            /\ poller' = [poller EXCEPT !["sync"] =
                 Broadcasting("syncing",
                   [t |-> "sync", v |-> SyncStatusOf(outcome)])]
  /\ UNCHANGED <<registryVars, hubVars, send, conn, handlers, panicked, last, locking,
                 upstream, lastBlockNum, lastGasPrice, blocksTick,
                 UpstreamErrorsTotal, pollLog>>

PollSubscriptionTypes == {"gasPrice", "blockReceipts"}

NextPoll ==
  /\ ~panicked
  /\ \/ \E c \in Sessions, subType \in PollSubscriptionTypes :
          PollSubscribe(c, subType)
     \/ \E c \in Sessions, subID \in SubIds : PollUnsubscribe(c, subID)
     \/ NodeNewBlock
     \/ \E g \in GasPrices : NodeGasPrice(g)
     \/ \E res \in {"ok", "fail", "empty"} : BlocksFetchNumber(res)
     \/ \E res \in {"ok", "fail"} : BlocksGasPrice(res)
     \/ \E res \in {"ok", "fail", "nil"} : BlocksHead(res)
     \/ \E res \in {"ok", "fail"} : BlocksLogs(res)
     \/ BlocksLog
     \/ \E res \in {"ok", "fail"} : BlocksReceipts(res)
     \/ \E sub \in poller["blocks"].subs : SendToClientLookup("blocks", sub)
     \/ SendToClientSend("blocks")
     \/ BroadcastReturn("blocks")

SpecPoll == InitFan /\ [][NextPoll]_vars

(***************************************************************************)
(* The block poller against a node whose calls succeed.  The ticker keeps  *)
(* firing and the Go scheduler keeps running the goroutine of pollBlocks,  *)
(* so a step of the poller that stays possible is taken in the end; the    *)
(* node and the clients are under no such obligation.                      *)
(***************************************************************************)
\* a step of the goroutine of pollBlocks, every upstream call succeeding
BlocksStep ==
  \/ BlocksFetchNumber("ok")
  \/ BlocksGasPrice("ok")
  \/ BlocksHead("ok")
  \/ BlocksLogs("ok")
  \/ BlocksLog
  \/ BlocksReceipts("ok")
  \/ \E sub \in poller["blocks"].subs : SendToClientLookup("blocks", sub)
  \/ SendToClientSend("blocks")
  \/ BroadcastReturn("blocks")

NextPollFair ==
  /\ ~panicked
  /\ \/ \E c \in Sessions, subType \in PollSubscriptionTypes :
          PollSubscribe(c, subType)
     \/ \E c \in Sessions, subID \in SubIds : PollUnsubscribe(c, subID)
     \/ NodeNewBlock
     \/ \E g \in GasPrices : NodeGasPrice(g)
     \/ BlocksStep

SpecPollFair == InitFan /\ [][NextPollFair]_vars /\ WF_vars(BlocksStep)

(***************************************************************************)
(* The notifications of one block: the clients of Sessions subscribe to    *)
(* newHeads, logs and blockReceipts and read their queues, the node        *)
(* produces blocks, every upstream call succeeds.                          *)
(***************************************************************************)
BlockSubscriptionTypes == {"newHeads", "logs", "blockReceipts"}

NextBlock ==
  /\ ~panicked
  /\ \/ \E c \in Sessions, subType \in BlockSubscriptionTypes :
          PollSubscribe(c, subType)
     \/ \E c \in Sessions, subID \in SubIds : PollUnsubscribe(c, subID)
     \/ \E c \in Sessions : WritePump(c)
     \/ NodeNewBlock
     \/ BlocksStep

SpecBlock == InitFan /\ [][NextBlock]_vars

(***************************************************************************)
(* The sync check (pollSyncing) on its own, in the same setting.           *)
(***************************************************************************)
NextSync ==
  /\ ~panicked
  /\ \/ \E c \in Sessions : PollSubscribe(c, "syncing")
     \/ \E c \in Sessions, subID \in SubIds : PollUnsubscribe(c, subID)
     \/ \E c \in Clients : WritePump(c)
     \/ NodeNewBlock
     \/ \E outcome \in SyncOutcomes : SyncTick(outcome)
     \/ \E sub \in poller["sync"].subs : SendToClientLookup("sync", sub)
     \/ SendToClientSend("sync")
     \/ BroadcastReturn("sync")

SpecSync == InitFan /\ [][NextSync]_vars

(***************************************************************************)
(* pollSyncing step by step, with time: the ticker fires every second and  *)
(* keeps at most one tick in ticker.C; the loop takes a tick only at its   *)
(* head; the two upstream calls of a check share a context that expires    *)
(* queryTimeout after the check began, and a call that is still waiting    *)
(* then returns an error.  elapsed counts the seconds since the check      *)
(* began.                                                                  *)
(***************************************************************************)
\* const queryTimeout, in seconds
queryTimeout == 2

\* a second passes: the ticker sends on ticker.C, or drops the tick when one
\* is waiting there already
TickerFire ==
  /\ syncTick.pc # "wait" => syncTick.elapsed < queryTimeout
  /\ syncTick' = [syncTick EXCEPT
       !.pending = 1,
       !.elapsed = IF syncTick.pc = "wait" THEN 0 ELSE @ + 1]
  /\ UNCHANGED <<registryVars, hubVars, send, conn, handlers, poller, panicked,
                 last, locking, upstream, lastBlockNum, lastGasPrice,
                 blocksTick, UpstreamErrorsTotal, pollLog>>

\* a goroutine started for every tick, whatever the one before is doing
SyncReceiveTick_Spawns ==
  /\ syncTick.pending = 1
  /\ IF ~SubscribedTo("syncing")
       THEN syncTick' = [syncTick EXCEPT !.pending = 0, !.queries = 0]
       ELSE syncTick' = [syncTick EXCEPT !.pending = 0, !.queries = 0,
                                         !.pc = "number", !.elapsed = 0,
                                         !.inflight = @ + 1]
  /\ UNCHANGED <<registryVars, hubVars, send, conn, handlers, poller, panicked,
                 last, locking, upstream, lastBlockNum, lastGasPrice,
                 blocksTick, UpstreamErrorsTotal, pollLog>>

\* for range ticker.C: the loop is at its head and takes the waiting tick;
\* with a syncing subscriber the check begins (context.WithTimeout)
SyncReceiveTick ==
  /\ syncTick.pc = "wait"
  /\ poller["sync"].pc = "idle"
  /\ syncTick.pending = 1
  /\ IF ~SubscribedTo("syncing")
       THEN syncTick' = [syncTick EXCEPT !.pending = 0, !.queries = 0]
       ELSE syncTick' = [syncTick EXCEPT !.pending = 0, !.queries = 0,
                                         !.pc = "number", !.elapsed = 0,
                                         !.inflight = @ + 1]
  /\ UNCHANGED <<registryVars, hubVars, send, conn, handlers, poller, panicked,
                 last, locking, upstream, lastBlockNum, lastGasPrice,
                 blocksTick, UpstreamErrorsTotal, pollLog>>

\* client.GetBlockNumber(ctx) returns, at the latest when ctx expires
SyncGetBlockNumber(outcome) ==
  /\ syncTick.pc = "number"
  /\ syncTick.elapsed = queryTimeout => outcome.kind = "numfail"
  /\ IF outcome.kind = "numfail"
       THEN /\ syncTick' = [syncTick EXCEPT !.queries = 1, !.pc = "wait",
                                            !.inflight = @ - 1]
            /\ poller' = [poller EXCEPT !["sync"] =
                 Broadcasting("syncing",
                   [t |-> "sync", v |-> SyncStatusOf(outcome)])]
       ELSE /\ syncTick' = [syncTick EXCEPT !.queries = 1, !.pc = "block"]
            /\ UNCHANGED poller
  /\ UNCHANGED <<registryVars, hubVars, send, conn, handlers, panicked, last,
                 locking, upstream, lastBlockNum, lastGasPrice, blocksTick,
                 UpstreamErrorsTotal, pollLog>>

\* client.GetFullBlock(ctx, blockNum) returns, cancel(), and the status found
\* is broadcast
SyncGetFullBlock(outcome) ==
  /\ syncTick.pc = "block"
  /\ outcome.kind # "numfail"
  /\ syncTick.elapsed = queryTimeout => outcome.kind = "blockfail"
  /\ syncTick' = [syncTick EXCEPT !.queries = 2, !.pc = "wait",
                                  !.inflight = @ - 1]
  /\ poller' = [poller EXCEPT !["sync"] =
       Broadcasting("syncing", [t |-> "sync", v |-> SyncStatusOf(outcome)])]
  /\ UNCHANGED <<registryVars, hubVars, send, conn, handlers, panicked, last,
                 locking, upstream, lastBlockNum, lastGasPrice, blocksTick,
                 UpstreamErrorsTotal, pollLog>>

NextTicker ==
  /\ ~panicked
  /\ \/ \E c \in Sessions : PollSubscribe(c, "syncing")
     \/ \E c \in Sessions, subID \in SubIds : PollUnsubscribe(c, subID)
     \/ \E c \in Clients : WritePump(c)
     \/ TickerFire
     \/ SyncReceiveTick
     \/ \E outcome \in SyncOutcomes : SyncGetBlockNumber(outcome)
     \/ \E outcome \in SyncOutcomes : SyncGetFullBlock(outcome)
     \/ \E sub \in poller["sync"].subs : SendToClientLookup("sync", sub)
     \/ SendToClientSend("sync")
     \/ BroadcastReturn("sync")

SpecTicker == InitFan /\ [][NextTicker]_vars

(***************************************************************************)
(* The two locks: Broadcaster.mu, over the hub's client map, and           *)
(* Manager.mu, over the registry, both sync.RWMutex.  Each goroutine runs  *)
(* calls; a call is the sequence of its lock operations in program order.  *)
(* Lock and RLock take two steps: the call is made, then it returns with   *)
(* the lock.  Lock returns once nobody holds the lock; RLock returns once  *)
(* no writer holds it and no Lock call is pending (a pending writer keeps  *)
(* new readers out).                                                       *)
(***************************************************************************)
LockStep(do, mu) == [do |-> do, mu |-> mu]

\* the calls each goroutine makes: the control loop, the two pollers'
\* broadcasts, a message handler, the status endpoints of main
LockOps(t) ==
  CASE t = "run" -> {"register", "unregister", "unregisterAbsent"}
    [] t \in {"blocks", "sync"} -> {"Broadcast"}
    [] t = "handler" -> {"Subscribe", "Unsubscribe"}
    [] t = "status" -> {"GetClientInfo", "GetStats"}

\* a broadcast that keeps the registry's read lock while it sends
LockPath_SendUnderRegistryLock(op) ==
  CASE op = "register" ->
         <<LockStep("Lock", "hub"), LockStep("Unlock", "hub")>>
    [] op = "unregister" ->
         <<LockStep("Lock", "hub"), LockStep("Lock", "registry"),
           LockStep("Unlock", "registry"), LockStep("Unlock", "hub")>>
    [] op = "unregisterAbsent" ->
         <<LockStep("Lock", "hub"), LockStep("Unlock", "hub")>>
    [] op = "Broadcast" ->
         <<LockStep("RLock", "registry"), LockStep("RLock", "hub"),
           LockStep("RUnlock", "hub"), LockStep("RUnlock", "registry")>>
    [] op \in {"Subscribe", "Unsubscribe"} ->
         <<LockStep("Lock", "registry"), LockStep("Unlock", "registry")>>
    [] op = "GetClientInfo" ->
         <<LockStep("RLock", "hub"), LockStep("RUnlock", "hub"),
           LockStep("RLock", "registry"), LockStep("RUnlock", "registry")>>
    [] op = "GetStats" ->
         <<LockStep("RLock", "hub"), LockStep("RUnlock", "hub")>>
    [] OTHER -> <<>>

\* the lock operations of a call, in program order:
\*   Run's register case; Run's unregister case with the client present
\*   (UnsubscribeAll inside the hub lock) and absent;
\*   Broadcast*: GetSubscriptionsByType, then SendToClient;
\*   Subscribe, Unsubscribe; GetClientInfo and GetAllClientsInfo: the client
\*   map, then GetClientSubscriptions; GetStats and ClientCount
LockPath(op) ==
  CASE op = "register" ->
         <<LockStep("Lock", "hub"), LockStep("Unlock", "hub")>>
    [] op = "unregister" ->
         <<LockStep("Lock", "hub"), LockStep("Lock", "registry"),
           LockStep("Unlock", "registry"), LockStep("Unlock", "hub")>>
    [] op = "unregisterAbsent" ->
         <<LockStep("Lock", "hub"), LockStep("Unlock", "hub")>>
    [] op = "Broadcast" ->
         <<LockStep("RLock", "registry"), LockStep("RUnlock", "registry"),
           LockStep("RLock", "hub"), LockStep("RUnlock", "hub")>>
    [] op \in {"Subscribe", "Unsubscribe"} ->
         <<LockStep("Lock", "registry"), LockStep("Unlock", "registry")>>
    [] op = "GetClientInfo" ->
         <<LockStep("RLock", "hub"), LockStep("RUnlock", "hub"),
           LockStep("RLock", "registry"), LockStep("RUnlock", "registry")>>
    [] op = "GetStats" ->
         <<LockStep("RLock", "hub"), LockStep("RUnlock", "hub")>>
    [] OTHER -> <<>>

\* how goroutine t holds lock mu: "w", "r" or "none"
HeldMode(t, mu) ==
  LET path == LockPath(locking[t].op)
      done == {i \in 1..locking[t].at : path[i].mu = mu}
  IN IF done = {} THEN "none"
     ELSE LET i == CHOOSE x \in done : \A y \in done : y <= x
          IN CASE path[i].do = "Lock" -> "w"
               [] path[i].do = "RLock" -> "r"
               [] OTHER -> "none"

\* the lock operation goroutine t makes next, NoStep at the end of its call
NoStep == LockStep("", "")

NextStep(t) ==
  IF locking[t].at < Len(LockPath(locking[t].op))
    THEN LockPath(locking[t].op)[locking[t].at + 1]
    ELSE NoStep

\* t is inside Lock or RLock of mu, which has not returned
Pending(t, do, mu) ==
  /\ locking[t].waiting
  /\ NextStep(t) = LockStep(do, mu)

\* the pending Lock or RLock of t can return
Available(t) ==
  LET mu == NextStep(t).mu
  IN IF NextStep(t).do = "Lock"
       THEN \A u \in LockThreads \ {t} : HeldMode(u, mu) = "none"
       ELSE \A u \in LockThreads \ {t} :
              /\ HeldMode(u, mu) # "w"
              /\ ~Pending(u, "Lock", mu)

LockCall(t, op) ==
  /\ locking[t].op = ""
  /\ op \in LockOps(t)
  /\ locking' = [locking EXCEPT ![t] = [op |-> op, at |-> 0, waiting |-> FALSE]]
  /\ UNCHANGED <<registryVars, hubVars, send, conn, handlers, poller,
                 panicked, last, pollVars>>

\* mu.Lock() or mu.RLock() is called
LockAcquire(t) ==
  /\ NextStep(t).do \in {"Lock", "RLock"}
  /\ ~locking[t].waiting
  /\ locking' = [locking EXCEPT ![t].waiting = TRUE]
  /\ UNCHANGED <<registryVars, hubVars, send, conn, handlers, poller,
                 panicked, last, pollVars>>

\* the call returns: t holds the lock
LockGranted(t) ==
  /\ locking[t].waiting
  /\ Available(t)
  /\ locking' = [locking EXCEPT ![t].waiting = FALSE, ![t].at = @ + 1]
  /\ UNCHANGED <<registryVars, hubVars, send, conn, handlers, poller,
                 panicked, last, pollVars>>

\* mu.Unlock() or mu.RUnlock()
LockRelease(t) ==
  /\ NextStep(t).do \in {"Unlock", "RUnlock"}
  /\ locking' = [locking EXCEPT ![t].at = @ + 1]
  /\ UNCHANGED <<registryVars, hubVars, send, conn, handlers, poller,
                 panicked, last, pollVars>>

LockReturn(t) ==
  /\ locking[t].op # ""
  /\ NextStep(t) = NoStep
  /\ locking' = [locking EXCEPT ![t] = NoLocking]
  /\ UNCHANGED <<registryVars, hubVars, send, conn, handlers, poller,
                 panicked, last, pollVars>>

NextLock ==
  \/ \E t \in LockThreads : \E op \in LockOps(t) : LockCall(t, op)
  \/ \E t \in LockThreads : LockAcquire(t)
  \/ \E t \in LockThreads : LockGranted(t)
  \/ \E t \in LockThreads : LockRelease(t)
  \/ \E t \in LockThreads : LockReturn(t)

SpecLock == InitFan /\ [][NextLock]_vars

(***************************************************************************)
(* Properties of the block poller (SpecPoll).                              *)
(***************************************************************************)
\* this step of pollBlocks called the named broadcast
Called(name) ==
  /\ blocksTick' # blocksTick
  /\ blocksTick'.call # <<>>
  /\ blocksTick'.call[1] = name

\* C24: across any sequence of poll ticks the poller calls BroadcastGasPrice
\* only when gasPrice subscribers exist and the fetched gas price differs
\* from the price of the previous gas-price broadcast; a tick on which the
\* price is unchanged broadcasts no gas price.
C24_GasPriceOnChangeOnly ==
  [][Called("BroadcastGasPrice")
     => /\ SubscribedTo("gasPrice")
        /\ blocksTick'.call[2] = upstream.gasPrice
        /\ upstream.gasPrice # pollLog.gas]_vars

\* a tick has passed the gas price without a broadcast although gasPrice
\* subscribers exist: the price is the one broadcast before
C24_Witness ==
  /\ blocksTick.pc = "head"
  /\ blocksTick.call = <<>>
  /\ SubscribedTo("gasPrice")
  /\ pollLog.gas # 0
  /\ pollLog.gas = upstream.gasPrice

\* C25: the poller broadcasts NewHeads (and the block's logs and receipts)
\* on a tick only if the fetched block number differs from the block number
\* of the last broadcast; while the upstream block number stays the same,
\* after one broadcast of that block no further NewHeads broadcast occurs.
C25_NewHeadsOnNewBlockOnly ==
  [][/\ Called("BroadcastNewHead")
        => /\ blocksTick'.call[2] = blocksTick.blockNum
           /\ blocksTick.blockNum # pollLog.head
     /\ (Called("BroadcastLog") \/ Called("BroadcastBlockReceipts"))
        => /\ blocksTick'.call[2] = pollLog.head
           /\ lastBlockNum # pollLog.head]_vars

\* a tick has fetched the number of the block broadcast last and is about
\* to end without a broadcast
C25_Witness ==
  /\ blocksTick.pc = "head"
  /\ blocksTick.blockNum # 0
  /\ blocksTick.blockNum = lastBlockNum
  /\ blocksTick.blockNum = pollLog.head
  /\ upstream.blockNumber = lastBlockNum

\* C26: while a blockReceipts subscription exists a blockReceipts
\* notification is broadcast for every new block the upstream produces: the
\* poller never moves past a block produced during the life of a
\* subscription that still exists without having broadcast its receipts.
C26_NoBlockSkipped ==
  \A o \in pollLog.owed :
    (o[2] \in DOMAIN subscriptions /\ lastBlockNum >= o[1])
    => o[1] \in pollLog.receipts

\* C27: every upstream call failure inside a poll tick is counted in the
\* upstream-error counter, and a block whose logs or receipts could not be
\* fetched is not recorded as done, so that the next tick fetches them again.
C27_FailuresCountedAndRetried ==
  /\ UpstreamErrorsTotal = pollLog.failures
  /\ \A call \in pollLog.outstanding : call[2] # lastBlockNum

(***************************************************************************)
(* Properties of the sync check (SpecSync).                                *)
(***************************************************************************)
\* C28: on every sync-check tick with at least one syncing subscriber
\* exactly one BroadcastSyncing is made, and its status is syncing=true if
\* and only if the block-number query failed or timed out, the block fetch
\* failed or returned no block, the block timestamp could not be parsed, or
\* the block's age exceeds the configured threshold.
C28_SyncStatusOfTick ==
  [][\A outcome \in SyncOutcomes :
       (SyncTick(outcome) /\ SubscribedTo("syncing"))
       => /\ poller["sync"].pc = "idle"
          /\ poller'["sync"].pc = "loop"
          /\ poller'["sync"].typ = "syncing"
          /\ poller'["sync"].payload.v.Syncing
               = \/ outcome.kind \in {"numfail", "blockfail", "nilblock",
                                       "badtime"}
                 \/ outcome.kind = "zerotime"
                 \/ outcome.kind = "block" /\ outcome.age > 15]_vars

\* a BroadcastSyncing is under way with the status of a node in sync
C28_Witness ==
  /\ poller["sync"].pc = "loop"
  /\ poller["sync"].typ = "syncing"
  /\ ~poller["sync"].payload.v.Syncing
  /\ poller["sync"].payload.v.CurrentBlock # 0

\* C29: on a sync-check tick at which no syncing subscription exists the
\* sync loop issues no upstream query and performs no broadcast.
C29_NoSubscriberNoQuery ==
  [][\A outcome \in SyncOutcomes :
       (SyncTick(outcome) /\ ~SubscribedTo("syncing"))
       => /\ syncTick'.queries = 0
          /\ poller' = poller
          /\ send' = send]_vars

\* a tick found no subscriber and queried nothing, after an earlier tick
\* had broadcast to a subscriber that has unsubscribed since
C29_Witness ==
  /\ syncTick.queries = 0
  /\ ~SubscribedTo("syncing")
  /\ unsubscribed # {}
  /\ \E c \in Clients : send[c] # <<>>

(***************************************************************************)
(* The log matcher on its own: MatchesLogFilter applied to a log and a     *)
(* filter, and the filter step of BroadcastLog applied to a log and the    *)
(* params of a logs subscription.  last holds the input and, once the      *)
(* function was applied, what it returned.                                 *)
(***************************************************************************)
SeqsUpTo(S, n) == UNION {[1..k -> S] : k \in 0..n}

\* logs with lowercase and uppercase hex digits and 0..MaxTopics topics
MatchLogs ==
  {[Address |-> a, Topics |-> ts] :
     a \in {<<"a">>, <<"A">>, <<"c">>},
     ts \in SeqsUpTo({<<"a">>, <<"B">>}, MaxTopics)}

\* the values allowed at one topic position; <<>> is the wildcard
TopicSets == {<<>>, <<<<"a">>>>, <<<<"b">>>>, <<<<"a">>, <<"b">>>>}

\* a nil filter, and filters as UnmarshalJSON or a caller may build them
MatchFilters ==
  {NilFilter}
  \cup {[Address |-> as, Topics |-> tp] :
          as \in {<<>>, <<<<"a">>>>, <<<<"A">>>>, <<<<"a">>, <<"c">>>>},
          tp \in SeqsUpTo(TopicSets, MaxTopics)}

\* params of a logs subscription: none, null, an address, topics with
\* wildcards, not an object
MatchParams ==
  { JAbsent, JNull, JNum,
    JObj(JStr(<<"A">>), JAbsent),
    JObj(JAbsent, JArr(<<JNull, JStr(<<"B">>)>>)),
    JObj(JAbsent, JArr(<<JNull, JNull>>)),
    JObj(JStr(<<"a">>), JNum) }

MatchInputs ==
  {[op |-> "input", log |-> l, filter |-> f, params |-> JAbsent, ret |-> FALSE] :
     l \in MatchLogs, f \in MatchFilters}
  \cup {[op |-> "input", log |-> l, filter |-> ZeroFilter, params |-> p,
         ret |-> FALSE] : l \in MatchLogs, p \in MatchParams}

InitMatch ==
  /\ subscriptions = [s \in {} |-> NoSub]
  /\ clientSubs = [c \in {} |-> <<>>]
  /\ owner = [s \in {} |-> ""]
  /\ unsubscribed = {}
  /\ clients = {}
  /\ register = <<>>
  /\ unregister = <<>>
  /\ send = [c \in Clients |-> <<>>]
  /\ sendClosed = [c \in Clients |-> FALSE]
  /\ conn = [c \in Clients |-> "idle"]
  /\ handlers = EmptyBag
  /\ poller = [p \in Pollers |-> IdlePoller]
  /\ panicked = FALSE
  /\ InitPoll
  /\ InitLock
  /\ last \in MatchInputs

\* subscription.MatchesLogFilter(log, filter)
CallMatchesLogFilter ==
  /\ last.op = "input"
  /\ last' = [last EXCEPT !.op = "MatchesLogFilter",
                          !.ret = MatchesLogFilter(last.log, last.filter)]
  /\ UNCHANGED <<registryVars, hubVars, send, conn, handlers, poller, panicked, pollVars, locking>>

\* the filter step of BroadcastLog for a logs subscription with these params:
\* filter is the filter it built, ret whether the log goes on to be sent
CallBroadcastLogFilter ==
  /\ last.op = "input"
  /\ LET sub == [ID |-> 1, Type |-> "logs", Params |-> last.params,
                 ClientID |-> "c1"]
     IN last' = [last EXCEPT
                   !.op = "BroadcastLog",
                   !.filter = SubFilter(sub),
                   !.ret = Passes("logs", [t |-> "log", v |-> last.log], sub)]
  /\ UNCHANGED <<registryVars, hubVars, send, conn, handlers, poller, panicked, pollVars, locking>>

NextMatch ==
  \/ CallMatchesLogFilter
  \/ CallBroadcastLogFilter

SpecMatch == InitMatch /\ [][NextMatch]_vars

(***************************************************************************)
(* Properties of the log matcher (SpecMatch).                              *)
(***************************************************************************)
\* C18: MatchesLogFilter(log, nil) is true for every log, and a logs
\* subscription created without filter parameters passes every broadcast log
\* on to be sent.
C18_NoFilterMatchesEveryLog ==
  /\ (last.op = "MatchesLogFilter" /\ IsNilFilter(last.filter)) => last.ret
  /\ (last.op = "BroadcastLog" /\ last.params = JAbsent) => last.ret

\* the matcher was applied to a nil filter and a log with topics
C18_Witness ==
  /\ last.op = "MatchesLogFilter"
  /\ IsNilFilter(last.filter)
  /\ Len(last.log.Topics) > 0
  /\ last.ret

Range(seq) == {seq[i] : i \in DOMAIN seq}

\* the address set of the filter is empty or holds the lowercased address
AddressAccepted(logEntry, filter) ==
  \/ filter.Address = <<>>
  \/ ToLower(logEntry.Address) \in Range(filter.Address)

\* every position with a non-empty set has a log topic whose lowercased
\* value is in the set
TopicsAccepted(logEntry, filter) ==
  \A i \in 1..Len(filter.Topics) :
    filter.Topics[i] # <<>>
    => /\ i <= Len(logEntry.Topics)
       /\ ToLower(logEntry.Topics[i]) \in Range(filter.Topics[i])

\* C19: for every log and every non-nil filter, MatchesLogFilter is true
\* exactly when the filter's address set is empty or contains the lowercased
\* log address, and for every topic position with a non-empty set the log
\* has a topic at that position whose lowercased value is in the set; empty
\* (wildcard) positions are skipped.
C19_MatchesLogFilterMeaning ==
  (last.op = "MatchesLogFilter" /\ ~IsNilFilter(last.filter))
  => (last.ret <=> /\ AddressAccepted(last.log, last.filter)
                   /\ TopicsAccepted(last.log, last.filter))

\* a log with an uppercase address and an uppercase second topic matched a
\* filter with an address set, a wildcard and a topic set
C19_Witness ==
  /\ last.op = "MatchesLogFilter"
  /\ ~IsNilFilter(last.filter)
  /\ last.ret
  /\ last.log.Address = <<"A">>
  /\ last.filter.Address # <<>>
  /\ Len(last.filter.Topics) = 2
  /\ last.filter.Topics[1] = <<>>
  /\ last.filter.Topics[2] # <<>>
  /\ last.log.Topics[2] = <<"B">>

\* C20: a filter with more topic positions than the log has topics never
\* matches.
C20_LongerFilterNeverMatches ==
  ( /\ last.op \in {"MatchesLogFilter", "BroadcastLog"}
    /\ ~IsNilFilter(last.filter)
    /\ Len(last.filter.Topics) > Len(last.log.Topics) )
  => ~last.ret

\* filter parameters that cannot be parsed into a filter: not a JSON object,
\* or an object whose topics field is not an array
MalformedFilterParams(params) ==
  \/ params.t \in {"num", "str", "arr"}
  \/ /\ params.t = "obj"
     /\ params.v[2].t \in {"num", "str", "obj"}

\* C21: a logs subscription whose filter parameters are malformed matches no
\* log: BroadcastLog passes no log on to be sent to it.
C21_MalformedFilterMatchesNothing ==
  (last.op = "BroadcastLog" /\ MalformedFilterParams(last.params))
  => ~last.ret

(***************************************************************************)
(* Properties of the registry (SpecReg).                                   *)
(***************************************************************************)
\* C9: Unsubscribe(c, s) returns true exactly when s currently exists and is
\* owned by c, and it then removes s from the map and from c's list; when it
\* returns false the registry is left as it was.  Consequently an Unsubscribe
\* of an id that has already been unsubscribed returns false.
C9_UnsubscribeResult ==
  [][\A c \in Clients, s \in SubIds :
       CallUnsubscribe(c, s) =>
         /\ last'.ret = (/\ s \in DOMAIN subscriptions
                         /\ subscriptions[s].ClientID = c)
         /\ last'.ret =>
              /\ s \notin DOMAIN subscriptions'
              /\ \A i \in DOMAIN GetClientSubscriptions(c)' :
                   GetClientSubscriptions(c)'[i] # s
         /\ ~last'.ret => UNCHANGED <<subscriptions, clientSubs>>
         /\ s \in unsubscribed => ~last'.ret]_vars

\* a second Unsubscribe of the same id by its owner has just returned false
C9_Witness ==
  /\ last.op = "Unsubscribe"
  /\ ~last.ret
  /\ last.sub \in unsubscribed
  /\ last.sub \in DOMAIN owner
  /\ owner[last.sub] = last.client

\* C10: immediately after UnsubscribeAll(c), GetSubscriptionsByType(t) holds no
\* subscription owned by c for every type t, GetClientSubscriptions(c) is
\* empty, and the subscriptions of every other client are unchanged.
C10_UnsubscribeAllClears ==
  [][\A c \in Clients :
       CallUnsubscribeAll(c) =>
         /\ \A t \in SubscriptionTypes :
              \A sub \in GetSubscriptionsByType(t)' : sub.ClientID # c
         /\ GetClientSubscriptions(c)' = <<>>
         /\ \A d \in Clients \ {c} :
              GetClientSubscriptions(d)' = GetClientSubscriptions(d)
         /\ \A s \in DOMAIN subscriptions :
              subscriptions[s].ClientID # c =>
                /\ s \in DOMAIN subscriptions'
                /\ subscriptions'[s] = subscriptions[s]]_vars

\* UnsubscribeAll has just removed subscriptions of one client while another
\* client keeps its own
C10_Witness ==
  /\ last.op = "UnsubscribeAll"
  /\ last.n > 0
  /\ \E s \in DOMAIN subscriptions : subscriptions[s].ClientID # last.client

\* C11 as stated: UnsubscribeAll(c) called a second time in a row, or on a
\* client that has no subscriptions, leaves the subscription map and the
\* client index exactly as they were.
C11_UnsubscribeAllNoOp ==
  [][\A c \in Clients :
       ( /\ CallUnsubscribeAll(c)
         /\ \/ last.op = "UnsubscribeAll" /\ last.client = c
            \/ GetClientSubscriptions(c) = <<>> )
       => UNCHANGED <<subscriptions, clientSubs>>]_vars

\* C11 as amended: a second UnsubscribeAll(c) in a row changes nothing; on a
\* client that has no subscriptions UnsubscribeAll(c) leaves the subscription
\* map and every client's list of ids as they were, and the only change to
\* the client index is that c's entry, an empty list, is gone.
C11_UnsubscribeAllIdempotent ==
  [][\A c \in Clients :
       CallUnsubscribeAll(c) =>
         /\ (last.op = "UnsubscribeAll" /\ last.client = c)
              => UNCHANGED <<subscriptions, clientSubs>>
         /\ GetClientSubscriptions(c) = <<>> =>
              /\ subscriptions' = subscriptions
              /\ \A d \in Clients :
                   GetClientSubscriptions(d)' = GetClientSubscriptions(d)
              /\ DOMAIN clientSubs' = DOMAIN clientSubs \ {c}
              /\ \A d \in DOMAIN clientSubs' : clientSubs'[d] = clientSubs[d]]_vars

\* UnsubscribeAll has just run for a client that had subscribed before and
\* had no subscription left, while another client keeps its own
C11_Witness ==
  /\ last.op = "UnsubscribeAll"
  /\ last.n = 0
  /\ \E s \in DOMAIN owner : owner[s] = last.client
  /\ \E s \in DOMAIN subscriptions : subscriptions[s].ClientID # last.client

(***************************************************************************)
(* Properties of request validation (SpecRpc).                             *)
(***************************************************************************)
\* the subscription types the specification lists for eth_subscribe
ListedSubscriptionTypes ==
  {"newHeads", "logs", "gasPrice", "blockReceipts", "syncing"}

\* the step of handler h stored a subscription of the requested type for the
\* requesting connection and goes on to answer with its id
SubscriptionCreated(h) ==
  \E id \in DOMAIN subscriptions' \ DOMAIN subscriptions :
    /\ subscriptions'[id].Type = h.req.typ
    /\ subscriptions'[id].ClientID = h.client
    /\ BagIn([h EXCEPT !.pc = "reply", !.res = [t |-> "subid", v |-> id]],
             handlers')

\* the step of handler h offered an error response with this code to the
\* connection's queue (it is appended when the queue has room), changed no
\* subscription and ended the handling of the message
AnsweredError(h, code) ==
  /\ send' = IF HasRoom(h.client)
               THEN [send EXCEPT ![h.client] = Append(@, NewErrorResponse(code))]
               ELSE send
  /\ UNCHANGED registryVars
  /\ handlers' = handlers (-) SetToBag({h})

\* C15: eth_subscribe creates a subscription and answers with its id exactly
\* when the first parameter is one of newHeads, logs, gasPrice, blockReceipts,
\* syncing; any other type is answered with error -32602 and creates nothing.
C15_SubscribeListedTypes ==
  [][\A h \in BagToSet(handlers) :
       (HandleSubscribe(h) /\ h.req.args = "ok")
       => IF h.req.typ \in ListedSubscriptionTypes
            THEN SubscriptionCreated(h)
            ELSE AnsweredError(h, -32602)]_vars

\* this step is the one in which the handling of the message of h began
HandlingBegan(h) ==
  /\ h.pc = "start"
  /\ BagIn(h, handlers)
  /\ CopiesIn(h, handlers') < CopiesIn(h, handlers)

\* the step of handler h passed its message to the upstream node
ForwardedUpstream(h) ==
  \E ok \in BOOLEAN : HandleForward(h, ok) \/ HandleBatch(h, ok)

Malformed(req) ==
  \/ req.envelope \in {"unparsable", "version", "badbatch"}
  \/ req.envelope = "ok" /\ req.method = ""
  \/ /\ req.envelope = "ok"
     /\ req.method \in {"eth_subscribe", "eth_unsubscribe"}
     /\ req.args # "ok"

JSONRPCErrorCodes == {-32700, -32600, -32601, -32602, -32603}

\* C17: every malformed inbound request results in a JSON-RPC error response
\* enqueued on the queue of the connection it arrived on, and handling it
\* neither closes the connection nor unregisters the client.
C17_MalformedGetsErrorResponse ==
  [][\A h \in BagToSet(handlers) :
       (HandlingBegan(h) /\ Malformed(h.req))
       => /\ \E code \in JSONRPCErrorCodes :
               send' = [send EXCEPT ![h.client] =
                          Append(@, NewErrorResponse(code))]
          /\ UNCHANGED <<conn, clients, unregister, sendClosed>>]_vars

(***************************************************************************)
(* Properties of the fan-out among registered clients (SpecFan).           *)
(***************************************************************************)
\* C1: an eth_unsubscribe arriving on connection A for a subscription s owned
\* by another connection B is answered false and leaves the registry
\* unchanged: s is still in the subscription map and still listed under B.
C1_ForeignUnsubscribeRefused ==
  [][\A h \in BagToSet(handlers) :
       ( /\ HandleUnsubscribe(h)
         /\ h.req.sub \in DOMAIN subscriptions
         /\ subscriptions[h.req.sub].ClientID # h.client )
       => /\ UNCHANGED <<subscriptions, clientSubs>>
          /\ h.req.sub \in DOMAIN subscriptions'
          /\ \E i \in DOMAIN GetClientSubscriptions(subscriptions[h.req.sub].ClientID)' :
               GetClientSubscriptions(subscriptions[h.req.sub].ClientID)'[i] = h.req.sub
          /\ BagIn([h EXCEPT !.pc = "reply",
                             !.res = [t |-> "bool", v |-> FALSE]], handlers')]_vars

\* a handler is about to answer false to an eth_unsubscribe for a
\* subscription that exists and belongs to the other connection
C1_Witness ==
  \E h \in BagToSet(handlers) :
    /\ h.req.method = "eth_unsubscribe"
    /\ h.pc = "reply"
    /\ h.res = [t |-> "bool", v |-> FALSE]
    /\ h.req.sub \in DOMAIN subscriptions
    /\ subscriptions[h.req.sub].ClientID # h.client

\* C8: once Unsubscribe(c, s) has returned true, no broadcast that starts
\* afterwards enqueues a notification for s: s is not in the snapshot of such
\* a broadcast and no send of it carries s.
C8_NoNotificationAfterUnsubscribe ==
  [][\A p \in Pollers :
       /\ \A sub \in poller'[p].subs : sub.ID \notin poller'[p].unsubAtStart
       /\ SendToClientSend(p) =>
            /\ poller[p].cur.ID \notin poller[p].unsubAtStart
            /\ \A c \in Clients :
                 Len(send'[c]) > Len(send[c]) =>
                   send'[c][Len(send'[c])].subscription
                     \notin poller[p].unsubAtStart]_vars

\* a broadcast that began after an Unsubscribe had returned true has enqueued
\* a notification
C8_Witness ==
  \E p \in Pollers :
    /\ poller[p].unsubAtStart # {}
    /\ \E i \in DOMAIN poller[p].log : poller[p].log[i].outcome = "sent"

(***************************************************************************)
(* Properties of the log fan-out (SpecLogs).                               *)
(***************************************************************************)
\* C4: a notification carrying subscription id s is only ever enqueued on the
\* outbound queue of the client that owns s.  In particular, when a log is
\* broadcast to logs subscriptions with address filters, the send for a
\* subscription touches no queue but its owner's, happens only if the log's
\* address is the one the owner asked for, and adds one notification when the
\* owner's queue has room.
C4_NotificationsReachOwnerOnly ==
  [][/\ \A c \in Clients : \A i \in DOMAIN send'[c] :
          send'[c][i].method = "eth_subscription" =>
            /\ send'[c][i].subscription \in DOMAIN owner'
            /\ owner'[send'[c][i].subscription] = c
     /\ \A p \in Pollers :
          SendToClientSend(p) =>
            LET sub == poller[p].cur
                c == sub.ClientID
            IN /\ \A d \in Clients \ {c} : send'[d] = send[d]
               /\ Len(send'[c]) = Len(send[c]) + (IF HasRoom(c) THEN 1 ELSE 0)
               /\ HasRoom(c) => send'[c][Len(send'[c])].subscription = sub.ID
               /\ (poller[p].typ = "logs" /\ sub.Params.t = "obj"
                     /\ sub.Params.v[1].t = "str") =>
                    ToLower(sub.Params.v[1].v)
                      = ToLower(poller[p].payload.v.Address)]_vars

\* a log broadcast over two clients' subscriptions with different address
\* filters has returned: the one whose address it matches got its
\* notification, the other was passed over
C4_Witness ==
  \E p \in Pollers :
    /\ poller[p].pc = "loop"
    /\ poller[p].subs = {}
    /\ poller[p].typ = "logs"
    /\ \E i, j \in DOMAIN poller[p].log :
         /\ poller[p].log[i].outcome = "sent"
         /\ poller[p].log[j].outcome = "nomatch"
         /\ poller[p].log[i].client # poller[p].log[j].client
         /\ subscriptions[poller[p].log[i].sub].Params.t = "obj"
         /\ \E k \in DOMAIN send[poller[p].log[i].client] :
              send[poller[p].log[i].client][k].subscription = poller[p].log[i].sub
         /\ \A k \in DOMAIN send[poller[p].log[j].client] :
              send[poller[p].log[j].client][k].method # "eth_subscription"

\* C6: BroadcastLog(l) enqueues nothing for a logs subscription whose address
\* filter l does not match: the subscription is passed over without a send
\* and no client's outbound queue changes.
C6_NoSendForNonMatchingLog ==
  [][\A p \in Pollers : \A sub \in poller[p].subs :
       ( /\ SendToClientLookup(p, sub)
         /\ poller[p].typ = "logs"
         /\ sub.Params.t = "obj"
         /\ sub.Params.v[1].t = "str"
         /\ ToLower(sub.Params.v[1].v) # ToLower(poller[p].payload.v.Address) )
       => /\ send' = send
          /\ poller'[p].pc = "loop"
          /\ poller'[p].cur = NoSub
          /\ poller'[p].log = Append(poller[p].log,
               [sub |-> sub.ID, client |-> sub.ClientID, outcome |-> "nomatch"])]_vars

\* a log broadcast has returned having passed over every subscription of its
\* snapshot
C6_Witness ==
  \E p \in Pollers :
    /\ poller[p].pc = "loop"
    /\ poller[p].subs = {}
    /\ poller[p].typ = "logs"
    /\ poller[p].log # <<>>
    /\ \A i \in DOMAIN poller[p].log : poller[p].log[i].outcome = "nomatch"

\* the message the select of SendToClient has just put on the queue of the
\* client of the current subscription of poller p
Enqueued(p) ==
  send'[poller[p].cur.ClientID][Len(send'[poller[p].cur.ClientID])]

C23_InSyncResultIsObject ==
  [][\A p \in Pollers :
       ( /\ SendToClientSend(p)
         /\ poller[p].typ = "syncing"
         /\ ~poller[p].payload.v.Syncing
         /\ HasRoom(poller[p].cur.ClientID) )
       => /\ Enqueued(p).result.t = "sync"
          /\ Enqueued(p).result.v.Syncing = FALSE
          /\ Enqueued(p).result.v.CurrentBlock
               = poller[p].payload.v.CurrentBlock]_vars

\* C13: for each client the writer puts messages on the wire in the order in
\* which they were enqueued, without reordering or duplication, whatever the
\* interleaving of the broadcasters and request handlers that enqueue: every
\* step either leaves a queue alone, or adds one message behind those it
\* holds, or is the writer taking the message at its head, the oldest.
C13_WriterFIFO ==
  [][\A c \in Clients :
       \/ send'[c] = send[c]
       \/ /\ Len(send'[c]) = Len(send[c]) + 1
          /\ SubSeq(send'[c], 1, Len(send[c])) = send[c]
       \/ /\ send[c] # <<>>
          /\ send'[c] = Tail(send[c])
          /\ \A d \in Clients \ {c} : send'[d] = send[d]]_vars

\* a queue holds a notification enqueued by a broadcaster ahead of a response
\* enqueued by a request handler
C13_Witness ==
  \E c \in Clients :
    /\ Len(send[c]) = 2
    /\ send[c][1].method = "eth_subscription"
    /\ send[c][2].method = ""
    /\ send[c][2].result.t = "subid"

(***************************************************************************)
(* Properties of the system from construction (Spec).                      *)
(***************************************************************************)
\* C2: SendToClient never blocks; if the client is in the live-client set and
\* its outbound queue has room the data is appended and true is returned; if
\* the queue is at capacity false is returned and the queue contents are
\* unchanged; if the client is not in the live-client set false is returned.
C2_SendToClientContract ==
  [][\A p \in Pollers :
       /\ \A sub \in poller[p].subs :
            (SendToClientLookup(p, sub) /\ sub.ClientID \notin clients) =>
              /\ send' = send
              /\ poller'[p].pc = "loop"
              /\ poller'[p].log[Len(poller'[p].log)].outcome = "absent"
       /\ poller[p].pc = "send" => ENABLED SendToClientSend(p)
       /\ SendToClientSend(p) =>
            LET c == poller[p].cur.ClientID
            IN /\ poller'[p].pc = "loop"
               /\ IF HasRoom(c)
                    THEN /\ Len(send'[c]) = Len(send[c]) + 1
                         /\ SubSeq(send'[c], 1, Len(send[c])) = send[c]
                         /\ poller'[p].log[Len(poller'[p].log)].outcome = "sent"
                    ELSE /\ send' = send
                         /\ poller'[p].log[Len(poller'[p].log)].outcome
                              = "dropped"]_vars

\* C3: in a broadcast, a client whose outbound queue is full neither blocks
\* the broadcast nor prevents delivery to the others: the send to it returns
\* and the loop goes on with the subscriptions left, every send to a client
\* with room enqueues its notification, and the broadcast runs on to its end.
C3_FullQueueDoesNotStall ==
  [][\A p \in Pollers :
       SendToClientSend(p) =>
         LET c == poller[p].cur.ClientID
         IN /\ ~panicked'
            /\ poller'[p].pc = "loop"
            /\ poller'[p].subs = poller[p].subs \ {poller[p].cur}
            /\ HasRoom(c) => Len(send'[c]) = Len(send[c]) + 1]_vars

\* C30: under every interleaving of a broadcast's SendToClient with the
\* control loop processing Unregister for the same client, SendToClient never
\* attempts to enqueue on an outbound queue that has already been closed.
C30_NoSendOnClosedQueue ==
  [][\A p \in Pollers :
       SendToClientSend(p) => ~sendClosed[poller[p].cur.ClientID]]_vars

\* C5 as stated: after a client's eth_subscribe for newHeads has been answered
\* with id s (the answer is on its queue), a BroadcastNewHead(h) that has s in
\* its snapshot returns having enqueued exactly one notification for s.
C5_ExactlyOnePerBroadcast ==
  \A p \in Pollers :
    (poller[p].pc = "loop" /\ poller[p].subs = {} /\ poller[p].typ = "newHeads")
    => \A i \in DOMAIN poller[p].log :
         LET e == poller[p].log[i]
         IN (\E k \in DOMAIN send[e.client] :
               send[e.client][k] = ResultResponse([t |-> "subid", v |-> e.sub]))
            => /\ e.outcome = "sent"
               /\ \A j \in DOMAIN poller[p].log :
                    poller[p].log[j].sub = e.sub => j = i

\* C5 as amended: BroadcastNewHead(h) makes one non-blocking send per
\* subscription of its snapshot, never two; the send enqueues one notification
\* with params.subscription s and params.result h on the owner's queue when
\* that queue is open and has room, and nothing otherwise.
C5_AtMostOnePerBroadcast ==
  [][\A p \in Pollers :
       /\ \A i, j \in DOMAIN poller'[p].log :
            poller'[p].log[i].sub = poller'[p].log[j].sub => i = j
       /\ \A i \in DOMAIN poller'[p].log :
            /\ poller'[p].log[i].sub # poller'[p].cur.ID
            /\ \A sub \in poller'[p].subs : sub.ID # poller'[p].log[i].sub
       /\ (SendToClientSend(p) /\ poller[p].typ = "newHeads") =>
            LET sub == poller[p].cur
                c == sub.ClientID
            IN /\ \A d \in Clients \ {c} : send'[d] = send[d]
               /\ IF ~sendClosed[c] /\ HasRoom(c)
                    THEN /\ send'[c] = Append(send[c],
                              [jsonrpc |-> "2.0", method |-> "eth_subscription",
                               subscription |-> sub.ID,
                               result |-> [t |-> "header",
                                           v |-> poller[p].payload.v],
                               code |-> 0])
                         /\ poller'[p].log[Len(poller'[p].log)]
                              = [sub |-> sub.ID, client |-> c, outcome |-> "sent"]
                    ELSE send' = send]_vars

\* a header broadcast has returned having enqueued the notification of a
\* subscription, which is on its owner's queue
C5_Witness ==
  \E p \in Pollers :
    /\ poller[p].pc = "loop"
    /\ poller[p].subs = {}
    /\ poller[p].typ = "newHeads"
    /\ \E i \in DOMAIN poller[p].log :
         /\ poller[p].log[i].outcome = "sent"
         /\ \E k \in DOMAIN send[poller[p].log[i].client] :
              /\ send[poller[p].log[i].client][k].subscription = poller[p].log[i].sub
              /\ send[poller[p].log[i].client][k].result
                   = [t |-> "header", v |-> poller[p].payload.v]

\* C7: once a client has disconnected and its unregister request and all of
\* its in-flight message handlers have completed, the registry contains no
\* subscription owned by that client (stated for a process that is running).
C7_NoSubscriptionOutlivesClient ==
  \A c \in Clients :
    ( /\ ~panicked
      /\ conn[c] = "gone"
      /\ \A i \in DOMAIN unregister : unregister[i] # c
      /\ \A h \in BagToSet(handlers) : h.client # c )
    => /\ \A s \in DOMAIN subscriptions : subscriptions[s].ClientID # c
       /\ GetClientSubscriptions(c) = <<>>

\* C14: in every reachable state each client's outbound queue holds at most
\* its capacity of messages, whatever the interleaving of broadcasts, handler
\* replies and the writer: no producer makes a full queue grow.
C14_QueueWithinCapacity ==
  \A c \in Clients : Len(send[c]) <= SendCap

\* a broadcast has dropped a notification for a client whose queue is at
\* capacity
C14_Witness ==
  \E p \in Pollers : \E i \in DOMAIN poller[p].log :
    /\ poller[p].log[i].outcome = "dropped"
    /\ Len(send[poller[p].log[i].client]) = SendCap

(***************************************************************************)
(* Handlers, disconnects and the control loop (Spec).                      *)
(***************************************************************************)
\* C31: a request handler dispatched before its client disconnected never
\* enqueues its reply on that client's outbound queue after the queue has
\* been closed by the control loop's unregister case.
C31_NoReplyOnClosedQueue ==
  [][\A h \in BagToSet(handlers) :
       HandleReply(h) => ~sendClosed[h.client]]_vars

\* C32: in every reachable state every stored subscription is owned by a
\* client that is currently registered (its connection is open or it is in
\* the live-client set) or that has disconnected and whose unregister request
\* the control loop has not yet processed.
C32_SubscriptionOwnerKnown ==
  \A s \in DOMAIN subscriptions :
    LET c == subscriptions[s].ClientID
    IN \/ c \in clients
       \/ conn[c] = "open"
       \/ \E i \in DOMAIN unregister : unregister[i] = c

\* C33: for every session, once both its Register and its later Unregister
\* have been processed by the control loop, the session is not in the
\* live-client set and its outbound queue is closed.
C33_ProcessedSessionIsGone ==
  \A c \in Clients :
    ( /\ conn[c] = "gone"
      /\ \A i \in DOMAIN register : register[i] # c
      /\ \A i \in DOMAIN unregister : unregister[i] # c )
    => /\ c \notin clients
       /\ sendClosed[c]

(***************************************************************************)
(* The two maps of the registry (SpecReg).                                 *)
(***************************************************************************)
\* how many times subID occurs in the list ids
Occurrences(ids, subID) ==
  Cardinality({i \in DOMAIN ids : ids[i] = subID})

\* C34: in every state outside the registry lock, an id is a key of the
\* subscription map if and only if it appears exactly once in the client-index
\* list of its owner; it appears in no other client's list.
C34_MapsAgree ==
  \A s \in SubIds, c \in Clients :
    Occurrences(GetClientSubscriptions(c), s)
      = IF s \in DOMAIN subscriptions /\ subscriptions[s].ClientID = c
          THEN 1 ELSE 0

\* a client that held two subscriptions has just unsubscribed one of them
C34_Witness ==
  /\ last.op = "Unsubscribe"
  /\ last.ret
  /\ last.sub \notin DOMAIN subscriptions
  /\ \E s \in DOMAIN subscriptions : subscriptions[s].ClientID = last.client

(***************************************************************************)
(* Properties of the locks (SpecLock).                                     *)
(***************************************************************************)
\* t cannot go on before u does: u holds the lock t is waiting for, or t
\* waits to read a lock for which u's Lock call is pending
WaitsFor(t, u) ==
  /\ t # u
  /\ locking[t].waiting
  /\ LET want == NextStep(t)
     IN \/ want.do = "Lock" /\ HeldMode(u, want.mu) # "none"
        \/ want.do = "RLock" /\ HeldMode(u, want.mu) = "w"
        \/ want.do = "RLock" /\ Pending(u, "Lock", want.mu)

\* the goroutines t waits for, directly or through others
WaitsForClosure(t) ==
  LET RECURSIVE Grow(_)
      Grow(S) ==
        LET T == S \cup {u \in LockThreads : \E v \in S : WaitsFor(v, u)}
        IN IF T = S THEN S ELSE Grow(T)
  IN Grow({u \in LockThreads : WaitsFor(t, u)})

\* C35: there is no deadlock between the hub's client-map lock and the
\* registry lock: no goroutines among the control loop, the broadcasters, the
\* handlers and the status calls wait for each other in a cycle, and no
\* goroutine asks for the hub lock while it holds the registry lock.
C35_NoLockCycle ==
  /\ \A t \in LockThreads : t \notin WaitsForClosure(t)
  /\ \A t \in LockThreads :
       NextStep(t).mu = "hub" /\ NextStep(t).do \in {"Lock", "RLock"}
         => HeldMode(t, "registry") = "none"

\* the control loop holds the hub lock and waits for the registry lock, which
\* a handler holds, while a status call and a broadcast wait for the hub lock
C35_Witness ==
  /\ HeldMode("run", "hub") = "w"
  /\ Pending("run", "Lock", "registry")
  /\ HeldMode("handler", "registry") = "w"
  /\ Pending("status", "RLock", "hub")
  /\ Pending("blocks", "RLock", "hub")

(***************************************************************************)
(* Properties of the sync check in time (SpecTicker).                      *)
(***************************************************************************)
\* C36: at most one sync check is in flight at any time: however long the
\* upstream calls of a check take within the check's timeout, no second check
\* begins before the first has ended.
C36_OneSyncCheckInFlight ==
  /\ syncTick.inflight <= 1
  /\ syncTick.inflight = 1 <=> syncTick.pc \in {"number", "block"}

\* a check whose upstream call has hung until the timeout, with the next tick
\* waiting in ticker.C
C36_Witness ==
  /\ syncTick.inflight = 1
  /\ syncTick.elapsed = queryTimeout
  /\ syncTick.pending = 1

(***************************************************************************)
(* Failed fetches of the block number and the header (SpecPoll).           *)
(***************************************************************************)
\* C37: if fetching the block number or the full header fails on a poll tick,
\* that tick ends there: it calls none of BroadcastNewHead, BroadcastLog and
\* BroadcastBlockReceipts, and it leaves lastBlockNum unchanged, so that the
\* block whose header failed passes the test against lastBlockNum again on
\* the next tick.
C37_FailedFetchEndsTick ==
  [][/\ BlocksFetchNumber("fail") =>
          /\ blocksTick'.pc = "wait"
          /\ blocksTick'.call = <<>>
          /\ poller' = poller
          /\ lastBlockNum' = lastBlockNum
     /\ BlocksHead("fail") =>
          /\ blocksTick'.pc = "wait"
          /\ blocksTick'.call = <<>>
          /\ poller' = poller
          /\ lastBlockNum' = lastBlockNum
          /\ pollLog'.head = pollLog.head
          /\ blocksTick.blockNum # lastBlockNum']_vars

\* a fetch of the number or of the header has failed while block 1 is there
\* and has not been broadcast
C37_Witness ==
  /\ UpstreamErrorsTotal = 1
  /\ blocksTick.pc = "wait"
  /\ upstream.blockNumber = 1
  /\ lastBlockNum = 0
  /\ pollLog.head = 0

(***************************************************************************)
(* Progress of the block poller (SpecPollFair).                            *)
(***************************************************************************)
\* C38: with a fair scheduler and upstream calls that succeed, if the
\* upstream block number becomes N and stays N, the poller eventually calls
\* BroadcastNewHead for block N.
C38_NewHeadEventuallyBroadcast ==
  \A N \in 1..MaxBlocks :
    <>[](upstream.blockNumber = N) => <>(pollLog.head = N)

\* the node has stopped at its last block and the poller has called
\* BroadcastNewHead for it, having skipped none
C38_Witness ==
  /\ upstream.blockNumber = MaxBlocks
  /\ pollLog.head = MaxBlocks
  /\ blocksTick.call = <<"BroadcastNewHead", MaxBlocks>>

(***************************************************************************)
(* The answer to eth_subscribe (SpecFan).                                  *)
(***************************************************************************)
\* C39: whenever an eth_subscribe request creates a subscription, a response
\* carrying the new id is enqueued on the requesting client's outbound queue:
\* the reply step of the handler appends the response with the id.
C39_SubscribeAnswerEnqueued ==
  [][\A h \in BagToSet(handlers) :
       (HandleReply(h) /\ h.res.t = "subid") =>
         /\ h.res.v \in DOMAIN owner
         /\ Len(send'[h.client]) = Len(send[h.client]) + 1
         /\ send'[h.client][Len(send'[h.client])] = ResultResponse(h.res)]_vars

(***************************************************************************)
(* Order of the notifications of a block (SpecBlock).                      *)
(***************************************************************************)
\* the block a notification of the block poller is about
BlockOf(msg) ==
  IF msg.result.t = "log" THEN msg.result.v.BlockNumber ELSE msg.result.v

\* the place of a notification among those of its block: the header, the
\* logs in the order of the upstream's response, the receipts
PlaceInBlock(msg) ==
  CASE msg.result.t = "header" -> 0
    [] msg.result.t = "log" -> 1 + msg.result.v.LogIndex
    [] msg.result.t = "receipts" -> 1 + Len(BlockLogs(msg.result.v))

\* C40: within one poll tick for block N the NewHeads notification is
\* enqueued before any log notification of block N, the log notifications in
\* the order the upstream returned them, and the blockReceipts notification
\* after them: the notifications of one block that wait in a client's
\* outbound queue are in that order.
C40_BlockNotificationsInOrder ==
  \A c \in Clients :
    \A i, j \in DOMAIN send[c] :
      (i < j /\ BlockOf(send[c][i]) = BlockOf(send[c][j]))
        => PlaceInBlock(send[c][i]) <= PlaceInBlock(send[c][j])

\* a client subscribed to logs and blockReceipts holds the last log of a
\* block and, behind it, the receipts of that block
C40_Witness ==
  \E c \in Clients :
    /\ Len(send[c]) = 2
    /\ send[c][1].result.t = "log"
    /\ send[c][1].result.v.LogIndex = 1
    /\ send[c][2].result.t = "receipts"
    /\ send[c][2].result.v = send[c][1].result.v.BlockNumber

====
